---- MODULE Spec2Model ----
(***************************************************************************)
(* Model of the phonetic word suggestion engine of src/src/background.ts:  *)
(* the PhoneticSearcher class (one IndexedDB-backed index per phonetic     *)
(* algorithm, built lazily from a word list) and getAllSuggestions (the    *)
(* fan-out / merge / rank over the active searchers).                      *)
(*                                                                         *)
(* Strings are sequences of one-character strings, so that trimming,       *)
(* lower-casing and the edit distance are computed and not assumed.        *)
(***************************************************************************)
EXTENDS Integers, Sequences, FiniteSets, Bags, TLC

(***************************************************************************)
(* Bounds of the model.  The three limits of the program are scaled down   *)
(* (source values: batchSize 5000, SUGGESTIONS_PER_METHOD 5,               *)
(* FINAL_SUGGESTION_LIMIT 7) so that flushes and truncations happen on     *)
(* word lists of a few words.                                              *)
(***************************************************************************)
MaxWords == 4

MaxLimit == 3

MaxInitCalls == 2

MaxInflight == 2

MaxText == 4

\* timeouts pending at once
MaxTimers == 2

batchSize == 2

SUGGESTIONS_PER_METHOD == 3

FINAL_SUGGESTION_LIMIT == 2

(***************************************************************************)
(* Words of the model.                                                     *)
(***************************************************************************)
chat == <<"c", "h", "a", "t">>

chatte == <<"c", "h", "a", "t", "t", "e">>

shat == <<"s", "h", "a", "t">>

cat == <<"c", "a", "t">>

ah == <<"a", "h">>

ee == <<"e">>

hash == <<"#">>

ChatRaw == <<" ", "C", "h", "a", "t">>

ChAtQuery == <<" ", "C", "h", "A", "t", " ">>

blank == <<" ", " ">>

(***************************************************************************)
(* String primitives: String.prototype.toLowerCase and .trim               *)
(***************************************************************************)
\* a sequence given as a function on 1..n, as a tuple
AsArray(f) == SubSeq(f, 1, Len(f))

LowerChar(ch) ==
    CASE ch = "C" -> "c"
      [] ch = "A" -> "a"
      [] OTHER -> ch

ToLowerCase(s) == AsArray([i \in 1..Len(s) |-> LowerChar(s[i])])

RECURSIVE TrimStart(_)
TrimStart(s) ==
    IF s # <<>> /\ Head(s) = " " THEN TrimStart(Tail(s)) ELSE s

RECURSIVE TrimEnd(_)
TrimEnd(s) ==
    IF s # <<>> /\ s[Len(s)] = " " THEN TrimEnd(SubSeq(s, 1, Len(s) - 1)) ELSE s

Trim(s) == TrimEnd(TrimStart(s))

(***************************************************************************)
(* The phonetic algorithms (talisman) are opaque pure functions from a     *)
(* lower-cased word to a code; the empty code is a legal value.  They are  *)
(* given here by their values on the words of the model; every other       *)
(* input has no phonetic signature (code "").                              *)
(***************************************************************************)
Algos == {"phonex", "soundex2", "metaphone"}

phonex(w) ==
    CASE w \in {chat, chatte, shat} -> "X1"
      [] w = cat -> "X2"
      [] OTHER -> ""

soundex2(w) ==
    CASE w \in {chat, chatte} -> "C300"
      [] w = shat -> "S300"
      [] w = cat -> "K300"
      [] OTHER -> ""

metaphone(w) ==
    CASE w \in {chat, shat} -> "XT"
      [] w = chatte -> "XTT"
      [] w = cat -> "KT"
      [] OTHER -> ""

\* activeAlgorithm(text) of the searcher of algorithm a
activeAlgorithm(a, w) ==
    CASE a = "phonex" -> phonex(w)
      [] a = "soundex2" -> soundex2(w)
      [] OTHER -> metaphone(w)

\* the inputs on which the algorithm of searcher a raises an exception
AlgorithmThrows(a, w) == a = "soundex2" /\ w = hash

Codes == {"", "X1", "X2", "C300", "S300", "K300", "XT", "XTT", "KT"}

(***************************************************************************)
(* levenshtein.get(s, t): the edit distance, computed row by row           *)
(***************************************************************************)
Min2(x, y) == IF x <= y THEN x ELSE y

RECURSIVE LevRow(_, _, _, _)
LevRow(prev, ch, t, acc) ==
    IF Len(acc) = Len(t) + 1
    THEN acc
    ELSE LET j == Len(acc)
             cost == IF ch = t[j] THEN 0 ELSE 1
         IN LevRow(prev, ch, t,
                   Append(acc, Min2(Min2(prev[j + 1] + 1, acc[j] + 1), prev[j] + cost)))

RECURSIVE LevRows(_, _, _, _)
LevRows(s, t, i, prev) ==
    IF i > Len(s)
    THEN prev[Len(t) + 1]
    ELSE LevRows(s, t, i + 1, LevRow(prev, s[i], t, <<prev[1] + 1>>))

levenshtein(s, t) == LevRows(s, t, 1, AsArray([j \in 1..(Len(t) + 1) |-> j - 1]))

(***************************************************************************)
(* Array helpers                                                           *)
(***************************************************************************)
Range(s) == {s[i] : i \in 1..Len(s)}

\* Array.prototype.slice(0, n): a negative n counts from the end
Slice(s, n) ==
    IF n >= 0 THEN SubSeq(s, 1, Min2(n, Len(s)))
    ELSE IF Len(s) + n > 0 THEN SubSeq(s, 1, Len(s) + n) ELSE <<>>

\* an array push in the place of Set.prototype.add
SetAddPushes(s, x) == Append(s, x)

\* Set.prototype.add on an insertion-ordered set
SetAdd(s, x) == IF x \in Range(s) THEN s ELSE Append(s, x)

\* Array.from(new Set(s)): first occurrences, in order
RECURSIVE ArrayFromSet(_)
ArrayFromSet(s) ==
    IF s = <<>> THEN <<>>
    ELSE SetAdd(ArrayFromSet(SubSeq(s, 1, Len(s) - 1)), s[Len(s)])

\* one insertion step of the stable sort: x goes after every element whose
\* distance is not greater than its own
RECURSIVE InsertByDistance(_, _, _)
InsertByDistance(sorted, x, nq) ==
    IF sorted = <<>> THEN <<x>>
    ELSE IF levenshtein(nq, ToLowerCase(x)) < levenshtein(nq, ToLowerCase(Head(sorted)))
         THEN <<x>> \o sorted
         ELSE <<Head(sorted)>> \o InsertByDistance(Tail(sorted), x, nq)

\* words.map(w => ({word, distance})).sort((a, b) => a.distance - b.distance)
\*      .map(item => item.word)        (Array.prototype.sort is stable)
RECURSIVE SortByDistance(_, _)
SortByDistance(words, nq) ==
    IF words = <<>> THEN <<>>
    ELSE InsertByDistance(SortByDistance(SubSeq(words, 1, Len(words) - 1), nq),
                          words[Len(words)], nq)

(***************************************************************************)
(* buildAndStorePhoneticIndex: the in-memory batch (a Map from code to a   *)
(* Set of words, both in insertion order), the streaming loop and          *)
(* writeBatch.                                                             *)
(***************************************************************************)
BatchKeys(batch) == {batch[i].k : i \in 1..Len(batch)}

\* BatchAdd without the test batch.has(key): the Set of the key is replaced
BatchAddResetsKey(batch, key, tw) ==
    IF key \in {batch[i].k : i \in 1..Len(batch)}
    THEN AsArray([i \in 1..Len(batch) |->
            IF batch[i].k = key THEN [k |-> key, ws |-> <<tw>>] ELSE batch[i]])
    ELSE Append(batch, [k |-> key, ws |-> <<tw>>])

\* BatchAdd without the branch `else if (key === '')`: a word with the
\* empty code is not added
BatchAddSkipsEmptyKey(batch, key, tw) ==
    IF key = "" THEN batch
    ELSE IF key \in {batch[i].k : i \in 1..Len(batch)}
    THEN AsArray([i \in 1..Len(batch) |->
            IF batch[i].k = key
            THEN [k |-> key, ws |-> SetAdd(batch[i].ws, tw)]
            ELSE batch[i]])
    ELSE Append(batch, [k |-> key, ws |-> <<tw>>])

\* if (!batch.has(key)) batch.set(key, new Set()); batch.get(key).add(tw)
BatchAdd(batch, key, tw) ==
    IF key \in BatchKeys(batch)
    THEN AsArray([i \in 1..Len(batch) |->
            IF batch[i].k = key
            THEN [k |-> key, ws |-> SetAdd(batch[i].ws, tw)]
            ELSE batch[i]])
    ELSE Append(batch, [k |-> key, ws |-> <<tw>>])

\* the try/catch around the whole loop: an exception ends the loop
CatchAroundLoop(words, i) == Len(words) + 1

\* the try/catch inside the loop body: after an exception of the algorithm
\* on word i (logged with console.warn) the loop goes on with the next word
CatchPerWord(words, i) == i + 1

\* the for loop over wordsArray, run from word i with the given batch up to
\* its next suspension: `await writeBatch(batch)` (atEnd FALSE, idx the word
\* to resume with) or the end of the list (atEnd TRUE)
RECURSIVE StreamWords(_, _, _, _)
StreamWords(a, words, i, batch) ==
    IF i > Len(words)
    THEN [idx |-> i, batch |-> batch, atEnd |-> TRUE]
    ELSE LET tw == Trim(words[i])
             nw == ToLowerCase(tw)
         IN IF tw = <<>>
            THEN StreamWords(a, words, i + 1, batch)
            ELSE IF AlgorithmThrows(a, nw)
            THEN StreamWords(a, words, CatchPerWord(words, i), batch)
            ELSE LET key == activeAlgorithm(a, nw)
                     added == BatchAdd(batch, key, tw)
                 IN IF key # ""
                    THEN IF Len(added) >= batchSize
                         THEN [idx |-> i + 1, batch |-> added, atEnd |-> FALSE]
                         ELSE StreamWords(a, words, i + 1, added)
                    ELSE StreamWords(a, words, i + 1, added)

\* StepAfterStream with a slip: markAsInitialized is reached as soon as the
\* loop suspends, while words and a batch remain
StepAfterStreamMarksEarly(r) ==
    IF r.atEnd /\ r.batch # <<>> THEN "finalFlush" ELSE "mark"

\* where buildAndStorePhoneticIndex (and _doInitialize after it) suspends
\* next: a flush of the loop, the flush of the remaining batch after the
\* loop, or markAsInitialized when nothing is left to write
StepAfterStream(r) ==
    IF ~r.atEnd THEN "flush"
    ELSE IF r.batch # <<>> THEN "finalFlush"
    ELSE "mark"

\* MergeWords with a slip: the existing words and the new ones are concatenated
\* without the Set
MergeWordsAppends(er, wta) == er \o wta

\* MergeWords with a slip: store.put of the new words alone
MergeWordsOverwrites(er, wta) == wta

\* the record written for one key: store.put of the union with the existing
\* record, or store.add of the new words
MergeWords(er, wta) ==
    IF er # <<>> THEN ArrayFromSet(er \o wta) ELSE wta

\* writeBatch(b), all requests of its transaction succeeding
WriteBatch(buckets, b) ==
    [c \in Codes |->
        IF c \in BatchKeys(b)
        THEN MergeWords(buckets[c], (CHOOSE e \in Range(b) : e.k = c).ws)
        ELSE buckets[c]]

EmptyBuckets == [c \in Codes |-> <<>>]

\* a whole build that nothing interrupts and in which no write fails
RECURSIVE BuildFrom(_, _, _, _, _)
BuildFrom(a, words, i, batch, buckets) ==
    LET r == StreamWords(a, words, i, batch)
    IN IF r.atEnd
       THEN IF r.batch # <<>> THEN WriteBatch(buckets, r.batch) ELSE buckets
       ELSE BuildFrom(a, words, r.idx, <<>>, WriteBatch(buckets, r.batch))

UninterruptedBuild(a, words) == BuildFrom(a, words, 1, <<>>, EmptyBuckets)

(***************************************************************************)
(* suggestMatches and getAllSuggestions: the pure parts                    *)
(***************************************************************************)
\* the normalization without the trim
NormalizeQueryNoTrim(q) == ToLowerCase(q)

\* query.toLowerCase().trim()
NormalizeQuery(q) == Trim(ToLowerCase(q))

\* SuggestIssuesLookup without the guard `!this.isReady || !this.db`
SuggestIssuesLookupUnguarded(ready, dbOpen, a, q) ==
    /\ Trim(ToLowerCase(q)) # <<>>
    /\ ~AlgorithmThrows(a, Trim(ToLowerCase(q)))

\* SuggestIssuesLookup with the guard `!this.db` alone
SuggestIssuesLookupDbOnly(ready, dbOpen, a, q) ==
    /\ dbOpen
    /\ Trim(ToLowerCase(q)) # <<>>
    /\ ~AlgorithmThrows(a, Trim(ToLowerCase(q)))

\* suggestMatches up to its `await this.getWordsForKey(queryKey)`: TRUE when
\* the lookup is issued, FALSE when the call returns [] before it (not
\* ready, no db, empty normalized query, or the algorithm threw)
SuggestIssuesLookup(ready, dbOpen, a, q) ==
    /\ ready
    /\ dbOpen
    /\ NormalizeQuery(q) # <<>>
    /\ ~AlgorithmThrows(a, NormalizeQuery(q))

\* the algorithm throws on the query inside the try block of suggestMatches
SuggestThrows(ready, dbOpen, a, q) ==
    /\ ready
    /\ dbOpen
    /\ NormalizeQuery(q) # <<>>
    /\ AlgorithmThrows(a, NormalizeQuery(q))

\* suggestMatches with no catch: an exception reaches the caller
SuggestOutcomeUncaught(threw) == IF threw THEN "raised" ELSE "returned"

\* how a call of suggestMatches that does not return words ends: the catch
\* block turns an exception of the try block into `return []`
SuggestOutcome(threw) == "returned"

\* getWordsForKey(key) resolving: request.result?.words || []
GetWordsForKey(objectStore, key) == objectStore[key]

\* a lookup that writes the bucket it read back, emptied
StoreAfterLookupConsumes(objectStore, key) == [objectStore EXCEPT ![key] = <<>>]

\* the object store after getWordsForKey(key): its transaction is
\* 'readonly' and its only request is store.get(key)
StoreAfterLookup(objectStore, key) == objectStore

\* suggestMatches truncating matchingWords before it sorts them
SuggestFromWordsSliceFirst(matchingWords, q, limit) ==
    IF matchingWords = <<>> THEN <<>>
    ELSE SortByDistance(Slice(matchingWords, limit), NormalizeQuery(q))

\* suggestMatches after the lookup resolved with matchingWords
SuggestFromWords(matchingWords, q, limit) ==
    IF matchingWords = <<>> THEN <<>>
    ELSE Slice(SortByDistance(matchingWords, NormalizeQuery(q)), limit)

\* suggestMatches(q, limit) on a ready searcher with the given object store,
\* its lookup resolving
SuggestResult(objectStore, a, q, limit) ==
    IF SuggestIssuesLookup(TRUE, TRUE, a, q)
    THEN SuggestFromWords(GetWordsForKey(objectStore, activeAlgorithm(a, NormalizeQuery(q))),
                          q, limit)
    ELSE <<>>

\* combined.push(...result.value) over the settled results, in the order of
\* ACTIVE_TALISMAN_ALGORITHMS; a rejected result contributes nothing
RECURSIVE CombineSettled(_)
CombineSettled(results) ==
    IF results = <<>> THEN <<>>
    ELSE (IF Head(results).status = "fulfilled" THEN Head(results).value ELSE <<>>)
         \o CombineSettled(Tail(results))

\* Promise.all in the place of Promise.allSettled: one rejected task rejects
\* the awaited promise
PromiseAllOutcome(results) ==
    IF \E i \in 1..Len(results) : results[i].status = "rejected"
    THEN "rejected" ELSE "fulfilled"

\* how the promise awaited on line 164 settles: Promise.allSettled fulfils
\* whatever the results are
AllSettledOutcome(results) == "fulfilled"

\* getAllSuggestions applying the final limit before it sorts
FinalSuggestionsSliceFirst(results, q) ==
    LET uniqueSuggestions == ArrayFromSet(CombineSettled(results))
    IN IF NormalizeQuery(q) = <<>> THEN <<>>
       ELSE SortByDistance(Slice(uniqueSuggestions, FINAL_SUGGESTION_LIMIT),
                           NormalizeQuery(q))

\* getAllSuggestions ranking `combined` itself, without the Set
FinalSuggestionsNoSet(results, q) ==
    IF NormalizeQuery(q) = <<>> THEN <<>>
    ELSE Slice(SortByDistance(CombineSettled(results), NormalizeQuery(q)),
               FINAL_SUGGESTION_LIMIT)

\* the calls of levenshtein.get that getAllSuggestions makes (lines 189-196):
\* none when the normalized query is empty, otherwise one per unique word
LevenshteinCalls(results, q) ==
    IF NormalizeQuery(q) = <<>> THEN {}
    ELSE { <<NormalizeQuery(q), ToLowerCase(w)>> :
               w \in Range(ArrayFromSet(CombineSettled(results))) }

\* getAllSuggestions without the return of line 190
FinalSuggestionsNoShortCircuit(results, q) ==
    LET uniqueSuggestions == ArrayFromSet(CombineSettled(results))
    IN Slice(SortByDistance(uniqueSuggestions, NormalizeQuery(q)),
             FINAL_SUGGESTION_LIMIT)

\* getAllSuggestions from line 174 on
FinalSuggestions(results, q) ==
    LET uniqueSuggestions == ArrayFromSet(CombineSettled(results))
    IN IF NormalizeQuery(q) = <<>> THEN <<>>
       ELSE Slice(SortByDistance(uniqueSuggestions, NormalizeQuery(q)),
                  FINAL_SUGGESTION_LIMIT)

(***************************************************************************)
(* Inputs                                                                  *)
(***************************************************************************)
\* word lists served under wordListUrl
MasterLists ==
    { <<chat, chatte, shat, cat>>,
      <<ChatRaw, blank, hash, chat, ah>>,
      <<ah, ee, cat, ah, shat>>,
      <<shat, chat, cat, chatte, chat>> }

WordLists ==
    UNION { { SubSeq(l, 1, n) : n \in 0..Min2(MaxWords, Len(l)) } : l \in MasterLists }

\* configurations of ACTIVE_TALISMAN_ALGORITHMS
ActiveLists ==
    { <<>>, <<"phonex">>, <<"soundex2", "metaphone">> }

Queries == { shat, chat, ChAtQuery, blank, hash, ah, <<"c", "a", "t", "s">> }

Limits == (0 - 1)..MaxLimit

\* queries sent while the searchers initialize
InitQueries == { chat }

(***************************************************************************)
(* State                                                                   *)
(***************************************************************************)
VARIABLES
    wordsArray,             \* the JSON array served under wordListUrl
    active,                 \* ACTIVE_TALISMAN_ALGORITHMS
    phoneticMapStore,       \* durable: per algorithm, code -> words record
    initStatusStore,        \* durable: per algorithm, the dbInitialized_ flag
    db,                     \* per searcher: this.db is not null
    isInitializing,         \* per searcher
    isReady,                \* per searcher
    initializationPromise,  \* per searcher: "none", "pending", "fulfilled", "rejected"
    pc,                     \* per searcher: where _doInitialize is suspended
    idx,                    \* per searcher: next word of the for loop
    batch,                  \* per searcher: the batch Map of the build
    console,                \* messages logged by this process run
    qpc,                    \* getAllSuggestions: "idle", "running", "returned", "raised"
    query,                  \* its argument
    task,                   \* per searcher: state of its promise in the fan-out
    taskValue,              \* per searcher: the value it fulfilled with
    finalSuggestions,       \* the list getAllSuggestions returned
    settleOrder,            \* history: the searchers in the order in which
                            \* their tasks of the fan-out settled
    sent,                   \* the calls of sendResponse for the message
                            \* being served, in order
    call,                   \* a direct call of suggestMatches(query, limit)
    interrupted,            \* history: searchers whose build a kill interrupted
                            \* after it had committed a flush
    initCalls,              \* history, per searcher: the calls of initialize()
                            \* in this process run, the entries into the
                            \* body of _doInitialize, and the outcomes the
                            \* promises returned by initialize() settled with
    staleWrites             \* per searcher: the keys whose per-bucket promise
                            \* of a writeBatch is still pending although its
                            \* Promise.all has rejected

\* state of the content script (src/public/contentscript.js) of one page
VARIABLES
    currentInputElement,    \* "none" or the element of the last handled input
    lastWordInfo,           \* NoWord or {word, start, end} of the tracked word
    dataSuggestions,        \* host attribute data-suggestions: the list its
                            \* JSON text denotes ('[]' is <<>>)
    hostDisplay,            \* host.style.display
    inflight,               \* bag of words: sendMessage callbacks not yet called
    delivered,              \* history: what the last callback was called with
    debounceTimer,          \* "none" or the target of the timer it designates
    timers,                 \* the targets of the pending timeouts, in the
                            \* order in which they expire
    cleared,                \* history: the suggestions were cleared and no
                            \* request has been sent since
    backgroundStatePort,    \* "null" or "open"
    portInbox,              \* the messages posted on the port by the
                            \* background and not yet handled
    dataLoadingState,       \* host attribute data-loading-state
    activeElement,          \* document.activeElement
    elemValue,              \* per element: value
    elemCursor              \* per element: selectionStart

portVars == <<backgroundStatePort, portInbox, dataLoadingState>>

contentVars == <<currentInputElement, lastWordInfo, dataSuggestions, hostDisplay,
                 inflight, delivered, debounceTimer, timers, cleared, activeElement,
                 elemValue, elemCursor, portVars>>

backgroundVars == <<wordsArray, active, phoneticMapStore, initStatusStore, db,
                    isInitializing, isReady, initializationPromise, pc, idx, batch,
                    console, qpc, query, task, taskValue, finalSuggestions,
                    settleOrder, sent, call,
                    interrupted, initCalls, staleWrites>>

durable == <<wordsArray, active, phoneticMapStore, initStatusStore>>

searcherVars == <<db, isInitializing, isReady, initializationPromise, pc, idx, batch>>

queryVars == <<qpc, query, task, taskValue, finalSuggestions, settleOrder, sent>>

vars == <<wordsArray, active, phoneticMapStore, initStatusStore, db, isInitializing,
          isReady, initializationPromise, pc, idx, batch, console, qpc, query, task,
          taskValue, finalSuggestions, settleOrder, sent, call, interrupted, initCalls,
          staleWrites, contentVars>>

Active == Range(active)

NoCall ==
    [state |-> "none", a |-> "", query |-> <<>>, limit |-> 0, ready |-> FALSE,
     lookup |-> "none", result |-> <<>>]

(***************************************************************************)
(* The content script: texts, word detection, the host element             *)
(***************************************************************************)
MIN_WORD_LENGTH == 2

\* the inputs of the page: a textarea, and an input of type email, whose
\* selectionStart is null
Elements == {"textarea", "email"}

HasSelection(e) == e = "textarea"

NullCursor == 0 - 1

\* what the user types into the textarea, and into the email input
Texts ==
    { <<"c">>, <<"c", "h">>, <<"c", "h", " ">>, <<"a", "h">> }

TextsOf(e) == IF HasSelection(e) THEN Texts ELSE { <<"a", "h">> }

NoWord == [word |-> <<>>, start |-> 0 - 1, end |-> 0 - 1]

NoResponse == [kind |-> "none", matches |-> <<>>, valid |-> FALSE]

\* what the callback of sendMessage can be called with: the response of
\* the background with words, with no word, or reporting a failure; or
\* no response, chrome.runtime.lastError being set
Responses ==
    { [kind |-> "matches", matches |-> <<ah, ee>>],
      [kind |-> "matches", matches |-> <<>>],
      [kind |-> "failure", matches |-> <<>>],
      [kind |-> "lastError", matches |-> <<>>] }

\* matchBefore?.index ?? cursorPosition for /(\S+)$/ on text.slice(0, cursor)
WordStart(text, cursor) ==
    CHOOSE i \in 0..cursor :
        /\ \A j \in (i + 1)..cursor : text[j] # " "
        /\ i > 0 => text[i] = " "

\* cursor + the length of the match of /^(\S*)/ on text.slice(cursor)
WordEnd(text, cursor) ==
    CHOOSE e \in cursor..Len(text) :
        /\ \A j \in (cursor + 1)..e : text[j] # " "
        /\ e < Len(text) => text[e + 1] = " "

\* text.slice(start, wordEnd).trim()
CurrentWord(text, cursor) ==
    Trim(SubSeq(text, WordStart(text, cursor) + 1, WordEnd(text, cursor)))

\* currentWord && currentWord.length >= MIN_WORD_LENGTH && !/\s/.test(currentWord)
IsPotentialWord(w) ==
    /\ w # <<>>
    /\ Len(w) >= MIN_WORD_LENGTH
    /\ \A i \in 1..Len(w) : w[i] # " "

\* JSON.stringify(currentWordInfo) !== JSON.stringify(lastWordInfo)
RequestNeeded(currentWordInfo, tracked) == currentWordInfo # tracked

\* response && response.success && response.matches
ResponseOk(r) == r.kind = "matches"

\* the data-suggestions attribute after the callback handled a response in
\* a context that is still valid
SuggestionsAfterResponseClears(current, r) ==
    IF ResponseOk(r) THEN r.matches ELSE <<>>

SuggestionsAfterResponse(current, r) ==
    IF ResponseOk(r) /\ Len(r.matches) > 0 THEN r.matches ELSE current

\* a validity test that compares the words alone
StillValidContextWordOnly(w) ==
    /\ lastWordInfo # NoWord
    /\ lastWordInfo.word = w

\* stillValidContext in the callback of the request for word w; a null
\* selectionStart compares as 0
StillValidContext(w) ==
    /\ currentInputElement # "none"
    /\ activeElement = currentInputElement
    /\ lastWordInfo # NoWord
    /\ lastWordInfo.word = w
    /\ LET sel == IF elemCursor[currentInputElement] = NullCursor THEN 0
                  ELSE elemCursor[currentInputElement]
       IN sel >= lastWordInfo.start /\ sel <= lastWordInfo.end

\* clearTimeout left out of the input listener
ClearTimeoutKeeps(pending, handle) == pending

\* if (debounceTimer) clearTimeout(debounceTimer): the handle designates the
\* timeout armed last
ClearTimeout(pending, handle) ==
    IF handle = "none" \/ pending = <<>> THEN pending
    ELSE SubSeq(pending, 1, Len(pending) - 1)

\* updateLoadingAttribute(state), the host being in the document
UpdateLoadingAttribute(state) == IF state = "ready" THEN "ready" ELSE "loading"

\* SuggestionBarComponent.updateLoadingState: isLoading
IsLoading(loadingState) == loadingState # "ready"

\* host and page right after the script loaded: initialSetup created the
\* host with data-loading-state 'loading' and data-suggestions '[]',
\* displayed it and connected the port
ContentLoaded ==
    /\ currentInputElement = "none"
    /\ lastWordInfo = NoWord
    /\ dataSuggestions = <<>>
    /\ hostDisplay = "block"
    /\ inflight = EmptyBag
    /\ delivered = NoResponse
    /\ debounceTimer = "none"
    /\ timers = <<>>
    /\ cleared = FALSE
    /\ backgroundStatePort = "open"
    /\ portInbox = <<>>
    /\ dataLoadingState = "loading"
    /\ activeElement = "body"
    /\ elemValue = [e \in Elements |-> <<>>]
    /\ elemCursor = [e \in Elements |-> IF HasSelection(e) THEN 0 ELSE NullCursor]

\* the process right after the background script ran: one PhoneticSearcher
\* per active algorithm, each constructor having called initialize(), which
\* ran _doInitialize up to `await this.openDatabase()`
Constructed ==
    /\ db = [a \in Algos |-> FALSE]
    /\ isInitializing = [a \in Algos |-> a \in Active]
    /\ isReady = [a \in Algos |-> FALSE]
    /\ initializationPromise = [a \in Algos |-> IF a \in Active THEN "pending" ELSE "none"]
    /\ pc = [a \in Algos |-> IF a \in Active THEN "open" ELSE "none"]
    /\ idx = [a \in Algos |-> 1]
    /\ batch = [a \in Algos |-> <<>>]
    /\ console = {}
    /\ qpc = "idle"
    /\ query = <<>>
    /\ task = [a \in Algos |-> "none"]
    /\ taskValue = [a \in Algos |-> <<>>]
    /\ finalSuggestions = <<>>
    /\ settleOrder = <<>>
    /\ sent = <<>>
    /\ call = NoCall
    /\ initCalls = [a \in Algos |->
            IF a \in Active THEN [calls |-> 1, runs |-> 1, outcomes |-> {}]
            ELSE [calls |-> 0, runs |-> 0, outcomes |-> {}]]
    /\ staleWrites = [a \in Algos |-> {}]

\* first run after installation: the databases do not exist yet
Init ==
    /\ wordsArray \in WordLists
    /\ active \in ActiveLists
    /\ phoneticMapStore = [a \in Algos |-> EmptyBuckets]
    /\ initStatusStore = [a \in Algos |-> FALSE]
    /\ interrupted = {}
    /\ Constructed
    /\ ContentLoaded

(***************************************************************************)
(* _doInitialize, one action per resumption                                *)
(***************************************************************************)
Log(source, kind) == console' = console \cup {<<source, kind>>}

\* the catch and finally blocks of _doInitialize, after the messages logged
\* where the error was thrown; the promise rejects
InitFailsLogging(a, logged) ==
    /\ db' = [db EXCEPT ![a] = FALSE]
    /\ isReady' = [isReady EXCEPT ![a] = FALSE]
    /\ isInitializing' = [isInitializing EXCEPT ![a] = FALSE]
    /\ initializationPromise' = [initializationPromise EXCEPT ![a] = "rejected"]
    /\ pc' = [pc EXCEPT ![a] = "failed"]
    /\ idx' = [idx EXCEPT ![a] = 1]
    /\ batch' = [batch EXCEPT ![a] = <<>>]
    /\ console' = console \cup logged \cup {<<a, "CRITICAL Init Error">>}

InitFails(a) == InitFailsLogging(a, {})

\* lines 110-111 and the finally block; the promise fulfils
InitCompletes(a) ==
    /\ isReady' = [isReady EXCEPT ![a] = TRUE]
    /\ isInitializing' = [isInitializing EXCEPT ![a] = FALSE]
    /\ initializationPromise' = [initializationPromise EXCEPT ![a] = "fulfilled"]
    /\ pc' = [pc EXCEPT ![a] = "done"]
    /\ idx' = [idx EXCEPT ![a] = 1]
    /\ batch' = [batch EXCEPT ![a] = <<>>]

\* the build moves to its next suspension with stream result r
BuildProceeds(a, r) ==
    /\ pc' = [pc EXCEPT ![a] = StepAfterStream(r)]
    /\ idx' = [idx EXCEPT ![a] = r.idx]
    /\ batch' = [batch EXCEPT ![a] = r.batch]

\* openDatabase resolved; checkIfInitialized is issued
OpenDatabaseOk(a) ==
    /\ pc[a] = "open"
    /\ db' = [db EXCEPT ![a] = TRUE]
    /\ pc' = [pc EXCEPT ![a] = "check"]
    /\ UNCHANGED <<durable, isInitializing, isReady, initializationPromise, idx, batch,
                   console, queryVars, call, interrupted, initCalls, staleWrites, contentVars>>

\* openDatabase rejected (request.onerror)
OpenDatabaseFail(a) ==
    /\ pc[a] = "open"
    /\ InitFails(a)
    /\ UNCHANGED <<durable, queryVars, call, interrupted, initCalls, staleWrites, contentVars>>

\* checkIfInitialized resolved true: the index is already built
CheckIfInitializedTrue(a) ==
    /\ pc[a] = "check"
    /\ initStatusStore[a]
    /\ InitCompletes(a)
    /\ UNCHANGED <<durable, db, console, queryVars, call, interrupted, initCalls, staleWrites, contentVars>>

\* _doInitialize without the test of isInitialized: the index is built on
\* every initialization
CheckIfInitializedIgnored(a) ==
    /\ pc[a] = "check"
    /\ pc' = [pc EXCEPT ![a] = "fetch"]
    /\ Log(a, "Building index")
    /\ UNCHANGED <<durable, db, isInitializing, isReady, initializationPromise, idx,
                   batch, queryVars, call, interrupted, initCalls, staleWrites,
                   contentVars>>

\* checkIfInitialized resolved false: buildAndStorePhoneticIndex starts and
\* suspends in fetch(wordListUrl)
CheckIfInitializedFalse(a) ==
    /\ pc[a] = "check"
    /\ ~initStatusStore[a]
    /\ pc' = [pc EXCEPT ![a] = "fetch"]
    /\ Log(a, "Building index")
    /\ UNCHANGED <<durable, db, isInitializing, isReady, initializationPromise, idx,
                   batch, queryVars, call, interrupted, initCalls, staleWrites, contentVars>>

\* checkIfInitialized rejected (req.onerror or transaction() threw)
CheckIfInitializedFail(a) ==
    /\ pc[a] = "check"
    /\ InitFails(a)
    /\ UNCHANGED <<durable, queryVars, call, interrupted, initCalls, staleWrites, contentVars>>

\* the word list arrived; the for loop runs to its first suspension
FetchOk(a) ==
    /\ pc[a] = "fetch"
    /\ BuildProceeds(a, StreamWords(a, wordsArray, 1, <<>>))
    /\ UNCHANGED <<durable, db, isInitializing, isReady, initializationPromise, console,
                   queryVars, call, interrupted, initCalls, staleWrites, contentVars>>

\* FetchFail with the error swallowed: the build goes on with no word
FetchFailSwallowed(a) ==
    /\ pc[a] = "fetch"
    /\ pc' = [pc EXCEPT ![a] = "mark"]
    /\ Log(a, "Word list error")
    /\ UNCHANGED <<durable, db, isInitializing, isReady, initializationPromise, idx,
                   batch, queryVars, call, interrupted, initCalls, staleWrites, contentVars>>

\* fetch failed, the status was not ok, or the body was no JSON array: the
\* catch around the fetch logs and rethrows
FetchFail(a) ==
    /\ pc[a] = "fetch"
    /\ InitFailsLogging(a, {<<a, "Word list error">>})
    /\ UNCHANGED <<durable, queryVars, call, interrupted, initCalls, staleWrites, contentVars>>

\* the transaction of a writeBatch of the loop completed: batch.clear() and
\* the loop resumes
FlushOk(a) ==
    /\ pc[a] = "flush"
    /\ phoneticMapStore' =
         [phoneticMapStore EXCEPT ![a] = WriteBatch(@, batch[a])]
    /\ BuildProceeds(a, StreamWords(a, wordsArray, idx[a], <<>>))
    /\ UNCHANGED <<wordsArray, active, initStatusStore, db, isInitializing, isReady,
                   initializationPromise, console, queryVars, call, interrupted, initCalls, staleWrites, contentVars>>

\* the promises of writeBatch(b) that are pending when the request at
\* position i of b fails.  The requests of the transaction are served in
\* the order they were placed: the store.get of every key, then the puts
\* (each placed by onsuccess of its get).  When a get fails no promise has
\* settled yet; when a put fails the promises before it are fulfilled
PendingWhenFails(b, i, stage) ==
    { b[j].k : j \in IF stage = "get" THEN (1..Len(b)) \ {i} ELSE (i + 1)..Len(b) }

\* `await Promise.all(promises)` in writeBatch rejects with the first
\* rejection: the promises it leaves pending when the catch block runs
RejectionLeavesPending(b, i, stage) == PendingWhenFails(b, i, stage)

\* the per-bucket promises of the flush at hand left pending
LeavesStale(a, i, stage) ==
    staleWrites' = [staleWrites EXCEPT ![a] =
        @ \cup RejectionLeavesPending(batch[a], i, stage)]

\* FlushFail with no catch around Promise.all: the rejection leaves
\* buildAndStorePhoneticIndex and _doInitialize fails
FlushFailAborts(a) ==
    /\ pc[a] = "flush"
    /\ InitFailsLogging(a, {<<a, "Batch write error">>})
    /\ UNCHANGED <<durable, queryVars, call, interrupted, initCalls, staleWrites,
                   contentVars>>

\* a request of the writeBatch failed: its transaction aborts, Promise.all
\* rejects, the error is caught and logged in writeBatch, batch.clear()
\* and the loop resumes
FlushFail(a) ==
    /\ pc[a] = "flush"
    /\ \E i \in 1..Len(batch[a]), stage \in {"get", "put"} : LeavesStale(a, i, stage)
    /\ BuildProceeds(a, StreamWords(a, wordsArray, idx[a], <<>>))
    /\ Log(a, "Batch write error")
    /\ UNCHANGED <<durable, db, isInitializing, isReady, initializationPromise,
                   queryVars, call, interrupted, initCalls, contentVars>>

\* the writeBatch after the loop completed; markAsInitialized is issued
FinalFlushOk(a) ==
    /\ pc[a] = "finalFlush"
    /\ phoneticMapStore' =
         [phoneticMapStore EXCEPT ![a] = WriteBatch(@, batch[a])]
    /\ pc' = [pc EXCEPT ![a] = "mark"]
    /\ batch' = [batch EXCEPT ![a] = <<>>]
    /\ UNCHANGED <<wordsArray, active, initStatusStore, db, isInitializing, isReady,
                   initializationPromise, idx, console, queryVars, call, interrupted, initCalls, staleWrites, contentVars>>

\* the writeBatch after the loop failed: caught and logged
FinalFlushFail(a) ==
    /\ pc[a] = "finalFlush"
    /\ pc' = [pc EXCEPT ![a] = "mark"]
    /\ batch' = [batch EXCEPT ![a] = <<>>]
    /\ \E i \in 1..Len(batch[a]), stage \in {"get", "put"} : LeavesStale(a, i, stage)
    /\ Log(a, "Batch write error")
    /\ UNCHANGED <<durable, db, isInitializing, isReady, initializationPromise, idx,
                   queryVars, call, interrupted, initCalls, contentVars>>

\* the error event of a request of an aborted transaction: its promise
\* rejects, which nothing awaits any more
AbortedWriteSettles(a) ==
    /\ \E w \in staleWrites[a] :
            staleWrites' = [staleWrites EXCEPT ![a] = @ \ {w}]
    /\ UNCHANGED <<durable, searcherVars, console, queryVars, call, interrupted,
                   initCalls, contentVars>>

\* markAsInitialized resolved: the flag is stored, the searcher is ready
MarkAsInitializedOk(a) ==
    /\ pc[a] = "mark"
    /\ initStatusStore' = [initStatusStore EXCEPT ![a] = TRUE]
    /\ InitCompletes(a)
    /\ UNCHANGED <<wordsArray, active, phoneticMapStore, db, console, queryVars, call, interrupted, initCalls, staleWrites, contentVars>>

\* MarkAsInitializedFail with the rejection swallowed: the searcher is
\* marked ready although the flag was not stored
MarkAsInitializedFailSwallowed(a) ==
    /\ pc[a] = "mark"
    /\ InitCompletes(a)
    /\ UNCHANGED <<durable, db, console, queryVars, call, interrupted, initCalls,
                   staleWrites, contentVars>>

\* markAsInitialized rejected
MarkAsInitializedFail(a) ==
    /\ pc[a] = "mark"
    /\ InitFails(a)
    /\ UNCHANGED <<durable, queryVars, call, interrupted, initCalls, staleWrites, contentVars>>

\* the suspensions of _doInitialize inside lines 105-106
BuildSteps == {"fetch", "flush", "finalFlush", "mark"}

\* the browser terminates the process and starts it again: the background
\* script runs anew, only the databases survive
Kill ==
    /\ \E a \in Active : pc[a] \notin {"open"}
    /\ db' = [a \in Algos |-> FALSE]
    /\ isInitializing' = [a \in Algos |-> a \in Active]
    /\ isReady' = [a \in Algos |-> FALSE]
    /\ initializationPromise' = [a \in Algos |-> IF a \in Active THEN "pending" ELSE "none"]
    /\ pc' = [a \in Algos |-> IF a \in Active THEN "open" ELSE "none"]
    /\ idx' = [a \in Algos |-> 1]
    /\ batch' = [a \in Algos |-> <<>>]
    /\ console' = {}
    /\ qpc' = "idle"
    /\ query' = <<>>
    /\ task' = [a \in Algos |-> "none"]
    /\ taskValue' = [a \in Algos |-> <<>>]
    /\ finalSuggestions' = <<>>
    /\ settleOrder' = <<>>
    /\ sent' = <<>>
    /\ call' = NoCall
    /\ initCalls' = [a \in Algos |->
            IF a \in Active THEN [calls |-> 1, runs |-> 1, outcomes |-> {}]
            ELSE [calls |-> 0, runs |-> 0, outcomes |-> {}]]
    /\ interrupted' = interrupted \cup
            {a \in Active : /\ pc[a] \in BuildSteps
                            /\ phoneticMapStore[a] # EmptyBuckets}
    /\ staleWrites' = [a \in Algos |-> {}]
    /\ UNCHANGED <<durable, contentVars>>

\* initialize() retrying after a failure: a rejected promise is replaced
InitializeRetriesAfterFailure(promise) == promise \in {"none", "rejected"}

\* initialize() with no stored promise test: _doInitialize is called anew
InitializeAlwaysRuns(promise) == TRUE

\* initialize(), line 90: _doInitialize is called when no promise is stored
InitializeRuns(promise) == promise = "none"

\* _doInitialize, line 97: the body is entered unless initializing or ready
DoInitializeEnters(initializing, ready) == ~(initializing \/ ready)

\* a call of initialize() after construction (the onInstalled handler, the
\* start-up loop, the task of a query): it returns the stored promise; with
\* no stored promise it stores the promise of a new _doInitialize(), which
\* suspends in openDatabase or returns at once at its guard
InitializeCall(a) ==
    /\ initCalls[a].calls < MaxInitCalls
    /\ LET runs == InitializeRuns(initializationPromise[a])
           enters == runs /\ DoInitializeEnters(isInitializing[a], isReady[a])
           promise == IF enters THEN "pending"
                      ELSE IF runs THEN "fulfilled"
                      ELSE initializationPromise[a]
       IN /\ initializationPromise' = [initializationPromise EXCEPT ![a] = promise]
          /\ isInitializing' = [isInitializing EXCEPT ![a] = enters \/ @]
          /\ pc' = [pc EXCEPT ![a] = IF enters THEN "open" ELSE @]
          /\ initCalls' = [initCalls EXCEPT ![a] =
                [calls |-> @.calls + 1,
                 runs |-> IF enters THEN @.runs + 1 ELSE @.runs,
                 outcomes |-> @.outcomes \cup
                     ({initializationPromise[a], promise} \cap {"fulfilled", "rejected"})]]
    /\ UNCHANGED <<durable, db, isReady, idx, batch, console, queryVars, call,
                   interrupted, staleWrites, contentVars>>

Initialize ==
    \E a \in Active :
        \/ OpenDatabaseOk(a)
        \/ OpenDatabaseFail(a)
        \/ CheckIfInitializedTrue(a)
        \/ CheckIfInitializedFalse(a)
        \/ CheckIfInitializedFail(a)
        \/ FetchOk(a)
        \/ FetchFail(a)
        \/ FlushOk(a)
        \/ FlushFail(a)
        \/ FinalFlushOk(a)
        \/ FinalFlushFail(a)
        \/ AbortedWriteSettles(a)
        \/ MarkAsInitializedOk(a)
        \/ MarkAsInitializedFail(a)

Next == Initialize \/ Kill

Spec == Init /\ [][Next]_vars

(***************************************************************************)
(* The onMessage listener and getAllSuggestions: one request served at a   *)
(* time                                                                    *)
(***************************************************************************)
\* a message: its type, the typeof of its payload, and the payload when it
\* is a string
Request(q) == [type |-> "CURRENT_WORD_UPDATE", payloadType |-> "string", payload |-> q]

\* the listener's test with the typeof left out
IsSuggestionRequestAnyPayload(message) == message.type = "CURRENT_WORD_UPDATE"

\* message.type === 'CURRENT_WORD_UPDATE' && typeof message.payload === 'string'
IsSuggestionRequest(message) ==
    /\ message.type = "CURRENT_WORD_UPDATE"
    /\ message.payloadType = "string"

\* the async block of the listener once getAllSuggestions has settled: one
\* call of sendResponse, in the try block or in the catch block
ListenerResponds(outcome, matches) ==
    IF outcome = "returned"
    THEN << [success |-> TRUE, matches |-> matches] >>
    ELSE << [success |-> FALSE, matches |-> <<>>] >>

Settled == {"fulfilled", "rejected"}

\* a fan-out that waits for every task to succeed
AllFulfilledReady(states) == \A i \in 1..Len(states) : states[i] = "fulfilled"

\* a fan-out that resumes as soon as one task has settled
AnySettledReady(states) == \E i \in 1..Len(states) : states[i] \in Settled

\* when the promise awaited on line 164 settles: Promise.allSettled waits
\* for every promise of the fan-out
AllSettledReady(states) == \A i \in 1..Len(states) : states[i] \in Settled

\* the array of settled results, in the order of ACTIVE_TALISMAN_ALGORITHMS
\* Promise.race in the place of Promise.allSettled: the task that settled
\* first alone is combined
AllResultsOfFirstSettled ==
    IF settleOrder = <<>> THEN <<>>
    ELSE <<[status |-> task[settleOrder[1]], value |-> taskValue[settleOrder[1]]]>>

AllResults ==
    AsArray([i \in 1..Len(active) |->
        [status |-> task[active[i]], value |-> taskValue[active[i]]]])

\* getAllSuggestions(q) without the test of activeInstances.length
GetAllSuggestionsNoGuard(q) ==
    /\ qpc \in {"idle", "returned"}
    /\ query' = q
    /\ taskValue' = [a \in Algos |-> <<>>]
    /\ finalSuggestions' = <<>>
    /\ settleOrder' = <<>>
    /\ sent' = <<>>
    /\ qpc' = "running"
    /\ task' = [a \in Algos |-> IF a \in Active THEN "awaitInit" ELSE "none"]
    /\ UNCHANGED <<console, durable, searcherVars, call, interrupted, initCalls, staleWrites, contentVars>>

\* getAllSuggestions(q) is called: with no active instance it returns [] at
\* once, otherwise every instance gets its async task, which suspends in
\* `await instance.initialize()`
GetAllSuggestions(q) ==
    /\ qpc \in {"idle", "returned"}
    /\ query' = q
    /\ taskValue' = [a \in Algos |-> <<>>]
    /\ finalSuggestions' = <<>>
    /\ settleOrder' = <<>>
    /\ IF Len(active) = 0
       THEN /\ qpc' = "returned"
            /\ task' = [a \in Algos |-> "none"]
            /\ Log("background", "No active Talisman algorithms configured")
            /\ sent' = ListenerResponds("returned", <<>>)
       ELSE /\ qpc' = "running"
            /\ task' = [a \in Algos |-> IF a \in Active THEN "awaitInit" ELSE "none"]
            /\ sent' = <<>>
            /\ UNCHANGED console
    /\ UNCHANGED <<durable, searcherVars, call, interrupted, initCalls, staleWrites, contentVars>>

\* the task of searcher a resumes after `await instance.initialize()`: it
\* rejects when the initialization promise rejected; otherwise it calls
\* suggestMatches if the searcher is ready, which suspends in the lookup or
\* returns [] before it
TaskResumes(a) ==
    /\ qpc = "running"
    /\ task[a] = "awaitInit"
    /\ initializationPromise[a] \in Settled
    /\ task' = [task EXCEPT ![a] =
                  IF initializationPromise[a] = "rejected" THEN "rejected"
                  ELSE IF isReady[a] /\ SuggestIssuesLookup(isReady[a], db[a], a, query)
                       THEN "lookup"
                  ELSE IF isReady[a] /\
                          SuggestOutcome(SuggestThrows(isReady[a], db[a], a, query)) = "raised"
                       THEN "rejected"
                       ELSE "fulfilled"]
    /\ settleOrder' = IF task'[a] \in Settled THEN Append(settleOrder, a)
                      ELSE settleOrder
    /\ UNCHANGED <<durable, searcherVars, console, qpc, query, taskValue,
                   finalSuggestions, sent, call, interrupted, initCalls, staleWrites,
                   contentVars>>

\* getWordsForKey resolved: suggestMatches ranks and truncates
TaskLookupOk(a) ==
    /\ qpc = "running"
    /\ task[a] = "lookup"
    /\ task' = [task EXCEPT ![a] = "fulfilled"]
    /\ taskValue' = [taskValue EXCEPT ![a] =
         SuggestFromWords(
             GetWordsForKey(phoneticMapStore[a],
                            activeAlgorithm(a, NormalizeQuery(query))),
             query, SUGGESTIONS_PER_METHOD)]
    /\ phoneticMapStore' = [phoneticMapStore EXCEPT ![a] =
         StoreAfterLookup(@, activeAlgorithm(a, NormalizeQuery(query)))]
    /\ settleOrder' = IF task'[a] \in Settled THEN Append(settleOrder, a)
                      ELSE settleOrder
    /\ UNCHANGED <<wordsArray, active, initStatusStore, searcherVars, console, qpc,
                   query, finalSuggestions, sent, call, interrupted, initCalls,
                   staleWrites, contentVars>>

\* getWordsForKey rejected: suggestMatches catches, logs and returns []
TaskLookupFail(a) ==
    /\ qpc = "running"
    /\ task[a] = "lookup"
    /\ task' = [task EXCEPT ![a] =
                  IF SuggestOutcome(TRUE) = "raised" THEN "rejected" ELSE "fulfilled"]
    /\ Log(a, "Error during search")
    /\ settleOrder' = IF task'[a] \in Settled THEN Append(settleOrder, a)
                      ELSE settleOrder
    /\ UNCHANGED <<durable, searcherVars, qpc, query, taskValue, finalSuggestions,
                   sent, call, interrupted, initCalls, staleWrites, contentVars>>

\* the promise awaited on line 164 has settled
FanOutSettled ==
    AllSettledReady(AsArray([i \in 1..Len(active) |-> task[active[i]]]))

\* every task settled: lines 174-202, then the listener's async block
\* resumes and calls sendResponse
Combine ==
    /\ qpc = "running"
    /\ FanOutSettled
    /\ IF AllSettledOutcome(AllResults) = "fulfilled"
       THEN /\ qpc' = "returned"
            /\ finalSuggestions' = FinalSuggestions(AllResults, query)
       ELSE /\ qpc' = "raised"
            /\ UNCHANGED finalSuggestions
    /\ sent' = sent \o ListenerResponds(qpc', finalSuggestions')
    /\ UNCHANGED <<durable, searcherVars, console, query, task, taskValue,
                   settleOrder, call, interrupted, initCalls, staleWrites,
                   contentVars>>

(***************************************************************************)
(* A direct call of the public method suggestMatches(query, limit)         *)
(***************************************************************************)
\* the call up to its return or its suspension in getWordsForKey; ready
\* records what the guard `!this.isReady || !this.db` read
SuggestMatches(a, q, limit) ==
    /\ call.state = "none"
    /\ call' = [state |-> IF SuggestIssuesLookup(isReady[a], db[a], a, q)
                          THEN "lookup"
                          ELSE SuggestOutcome(SuggestThrows(isReady[a], db[a], a, q)),
                a |-> a, query |-> q, limit |-> limit,
                ready |-> isReady[a] /\ db[a], lookup |-> "none", result |-> <<>>]
    /\ UNCHANGED <<durable, searcherVars, console, queryVars, interrupted, initCalls, staleWrites, contentVars>>

\* getWordsForKey resolved
SuggestLookupOk ==
    /\ call.state = "lookup"
    /\ call' = [call EXCEPT
                  !.state = "returned",
                  !.lookup = "resolved",
                  !.result = SuggestFromWords(
                      GetWordsForKey(phoneticMapStore[call.a],
                                     activeAlgorithm(call.a, NormalizeQuery(call.query))),
                      call.query, call.limit)]
    /\ phoneticMapStore' = [phoneticMapStore EXCEPT ![call.a] =
         StoreAfterLookup(@, activeAlgorithm(call.a, NormalizeQuery(call.query)))]
    /\ UNCHANGED <<wordsArray, active, initStatusStore, searcherVars, console,
                   queryVars, interrupted, initCalls, staleWrites, contentVars>>

\* getWordsForKey rejected: caught, logged, [] returned
SuggestLookupFail ==
    /\ call.state = "lookup"
    /\ call' = [call EXCEPT !.state = SuggestOutcome(TRUE), !.lookup = "rejected",
                            !.result = <<>>]
    /\ Log(call.a, "Error during search")
    /\ UNCHANGED <<durable, searcherVars, queryVars, interrupted, initCalls, staleWrites, contentVars>>

(***************************************************************************)
(* Runs of an installed extension: the indexes were built by an earlier    *)
(* run of the process, which set the built flags                           *)
(***************************************************************************)
InitInstalled ==
    /\ wordsArray \in WordLists
    /\ active \in ActiveLists
    /\ phoneticMapStore = [a \in Algos |->
            IF a \in Active THEN UninterruptedBuild(a, wordsArray) ELSE EmptyBuckets]
    /\ initStatusStore = [a \in Algos |-> a \in Active]
    /\ interrupted = {}
    /\ Constructed
    /\ ContentLoaded

\* the open request of searcher a never completes (it fires neither
\* onsuccess nor onerror; openDatabase handles no onblocked)
OpenDatabaseHangs(a) ==
    /\ pc[a] = "open"
    /\ pc' = [pc EXCEPT ![a] = "hung"]
    /\ UNCHANGED <<durable, db, isInitializing, isReady, initializationPromise, idx,
                   batch, console, queryVars, call, interrupted, initCalls, staleWrites, contentVars>>

InitializeInstalled(a) ==
    \/ OpenDatabaseOk(a)
    \/ OpenDatabaseFail(a)
    \/ CheckIfInitializedTrue(a)
    \/ CheckIfInitializedFail(a)

TaskStep(a) ==
    \/ TaskResumes(a)
    \/ TaskLookupOk(a)
    \/ TaskLookupFail(a)

NextQuery ==
    \/ \E a \in Active : InitializeInstalled(a)
    \/ \E a \in Active : OpenDatabaseHangs(a)
    \/ \E q \in Queries : GetAllSuggestions(q)
    \/ \E a \in Active : TaskStep(a)
    \/ Combine

SpecQuery == InitInstalled /\ [][NextQuery]_vars

\* the queries of the suggestion requests the content script sends
ListenerQueries == { chat, blank }

\* messages the runtime hands to the onMessage listener: suggestion
\* requests, a CURRENT_WORD_UPDATE whose payload is no string, and a
\* message of another type
Messages ==
    { Request(q) : q \in ListenerQueries }
        \cup { [type |-> "CURRENT_WORD_UPDATE", payloadType |-> "number", payload |-> <<>>],
               [type |-> "SOMETHING_ELSE", payloadType |-> "string", payload |-> chat] }

\* the onMessage listener: a suggestion request starts getAllSuggestions
\* and keeps the channel open, anything else is logged and left unanswered
OnMessage(message) ==
    IF IsSuggestionRequest(message)
    THEN GetAllSuggestions(message.payload)
    ELSE /\ Log("background", "Received unhandled message type")
         /\ UNCHANGED <<durable, searcherVars, queryVars, call, interrupted, initCalls,
                        staleWrites, contentVars>>

\* an installed extension whose listener receives messages
InitListener ==
    /\ InitInstalled
    /\ wordsArray = <<shat, chat, cat>>

NextListener ==
    \/ \E a \in Active : InitializeInstalled(a)
    \/ \E a \in Active : OpenDatabaseHangs(a)
    \/ \E message \in Messages : OnMessage(message)
    \/ \E a \in Active : TaskStep(a)
    \/ Combine

SpecListener == InitListener /\ [][NextListener]_vars

\* queries sent through the message listener while the indexes are built
ServeQueries == { chat, ah }

\* a fresh install of two searchers that serves queries while it builds
InitServe ==
    /\ Init
    /\ wordsArray = <<shat, chat, cat, chatte>>
    /\ active = <<"soundex2", "metaphone">>

NextServe ==
    \/ Initialize
    \/ \E q \in ServeQueries : GetAllSuggestions(q)
    \/ \E a \in Active : TaskStep(a)
    \/ Combine

SpecServe == InitServe /\ [][NextServe]_vars

\* lines 174-202 as a function of the query and of the settled results:
\* getAllSuggestions resumes after Promise.allSettled with any results
CombineQueries == { <<>>, <<" ">>, blank, chat, ChAtQuery }

SettledValues == { <<>>, <<chat>>, <<cat, chat>>, <<ah, ee, chat>> }

InitCombine ==
    /\ wordsArray = <<shat, chat, cat>>
    /\ active = <<"soundex2", "metaphone">>
    /\ phoneticMapStore = [a \in Algos |->
            IF a \in Active THEN UninterruptedBuild(a, wordsArray) ELSE EmptyBuckets]
    /\ initStatusStore = [a \in Algos |-> a \in Active]
    /\ interrupted = {}
    /\ db = [a \in Algos |-> a \in Active]
    /\ isInitializing = [a \in Algos |-> FALSE]
    /\ isReady = [a \in Algos |-> a \in Active]
    /\ initializationPromise = [a \in Algos |-> IF a \in Active THEN "fulfilled" ELSE "none"]
    /\ pc = [a \in Algos |-> IF a \in Active THEN "done" ELSE "none"]
    /\ idx = [a \in Algos |-> 1]
    /\ batch = [a \in Algos |-> <<>>]
    /\ console = {}
    /\ call = NoCall
    /\ initCalls = [a \in Algos |->
            IF a \in Active THEN [calls |-> 1, runs |-> 1, outcomes |-> {}]
            ELSE [calls |-> 0, runs |-> 0, outcomes |-> {}]]
    /\ staleWrites = [a \in Algos |-> {}]
    /\ qpc = "running"
    /\ query \in CombineQueries
    /\ task \in [Algos -> Settled \cup {"none"}]
    /\ \A a \in Algos : task[a] = "none" <=> a \notin Active
    /\ taskValue \in [Algos -> SettledValues]
    /\ \A a \in Algos : task[a] # "fulfilled" => taskValue[a] = <<>>
    /\ finalSuggestions = <<>>
    /\ settleOrder = active
    /\ sent = <<>>
    /\ ContentLoaded

NextCombine == Combine

SpecCombine == InitCombine /\ [][NextCombine]_vars

NextSuggest ==
    \/ \E a \in Active : InitializeInstalled(a)
    \/ \E a \in Active, q \in Queries, limit \in Limits : SuggestMatches(a, q, limit)
    \/ SuggestLookupOk
    \/ SuggestLookupFail

SpecSuggest == InitInstalled /\ [][NextSuggest]_vars

(***************************************************************************)
(* One process run from a fresh install: the initializations, further      *)
(* calls of initialize() and a direct call of suggestMatches(query) with   *)
(* its default limit                                                       *)
(***************************************************************************)
NextInit ==
    \/ Initialize
    \/ \E a \in Active : InitializeCall(a)
    \/ \E a \in Active, q \in InitQueries : SuggestMatches(a, q, SUGGESTIONS_PER_METHOD)
    \/ SuggestLookupOk
    \/ SuggestLookupFail

SpecInit == Init /\ [][NextInit]_vars

(***************************************************************************)
(* The content script of one page                                          *)
(***************************************************************************)
\* the user types into element e, the cursor following the text: the
\* document input listener cancels the pending timeout and arms a new one
InputEvent(e, text) ==
    /\ Len(ClearTimeout(timers, debounceTimer)) < MaxTimers
    /\ elemValue' = [elemValue EXCEPT ![e] = text]
    /\ elemCursor' = [elemCursor EXCEPT ![e] =
            IF HasSelection(e) THEN Len(text) ELSE NullCursor]
    /\ activeElement' = e
    /\ timers' = Append(ClearTimeout(timers, debounceTimer), e)
    /\ debounceTimer' = e
    /\ UNCHANGED <<currentInputElement, lastWordInfo, dataSuggestions, hostDisplay,
                   inflight, delivered, cleared, portVars, backgroundVars>>

\* the user clicks into element e at position c: no input event
Click(e, c) ==
    /\ c \in 0..Len(elemValue[e])
    /\ activeElement' = e
    /\ elemCursor' = [elemCursor EXCEPT ![e] = IF HasSelection(e) THEN c ELSE NullCursor]
    /\ UNCHANGED <<currentInputElement, lastWordInfo, dataSuggestions, hostDisplay,
                   inflight, delivered, debounceTimer, timers, cleared, elemValue,
                   portVars, backgroundVars>>

\* the focus leaves the inputs
Blur ==
    /\ activeElement # "body"
    /\ activeElement' = "body"
    /\ UNCHANGED <<currentInputElement, lastWordInfo, dataSuggestions, hostDisplay,
                   inflight, delivered, debounceTimer, timers, cleared, elemValue,
                   elemCursor, portVars, backgroundVars>>

\* the timeout that expires first fires: debouncedHandleInput(event) for
\* the target of its event
DebouncedHandleInput ==
    /\ timers # <<>>
    /\ LET target == Head(timers)
           text == elemValue[target]
           cursorPosition == elemCursor[target]
       IN /\ currentInputElement' = target
          /\ IF cursorPosition = NullCursor
             THEN /\ dataSuggestions' = <<>>
                  /\ lastWordInfo' = NoWord
                  /\ cleared' = TRUE
                  /\ UNCHANGED inflight
             ELSE LET currentWord == CurrentWord(text, cursorPosition)
                      currentWordInfo == [word |-> currentWord,
                                          start |-> WordStart(text, cursorPosition),
                                          end |-> WordEnd(text, cursorPosition)]
                  IN IF IsPotentialWord(currentWord)
                     THEN IF RequestNeeded(currentWordInfo, lastWordInfo)
                          THEN /\ BagCardinality(inflight) < MaxInflight
                               /\ lastWordInfo' = currentWordInfo
                               /\ inflight' = inflight (+) SetToBag({currentWord})
                               /\ cleared' = FALSE
                               /\ UNCHANGED dataSuggestions
                          ELSE UNCHANGED <<lastWordInfo, inflight, dataSuggestions, cleared>>
                     ELSE IF lastWordInfo # NoWord
                          THEN /\ lastWordInfo' = NoWord
                               /\ dataSuggestions' = <<>>
                               /\ cleared' = TRUE
                               /\ UNCHANGED inflight
                          ELSE UNCHANGED <<lastWordInfo, inflight, dataSuggestions, cleared>>
    /\ timers' = Tail(timers)
    /\ debounceTimer' = IF Tail(timers) = <<>> THEN "none" ELSE debounceTimer
    /\ UNCHANGED <<hostDisplay, delivered, activeElement, elemValue, elemCursor,
                   portVars, backgroundVars>>

\* the callback of the request for word w is called with r
Deliver(w, r) ==
    /\ BagIn(w, inflight)
    /\ inflight' = inflight (-) SetToBag({w})
    /\ delivered' = [kind |-> r.kind, matches |-> r.matches,
                     valid |-> r.kind # "lastError" /\ StillValidContext(w)]
    /\ IF r.kind = "lastError" \/ ~StillValidContext(w)
       THEN UNCHANGED <<dataSuggestions, hostDisplay>>
       ELSE /\ hostDisplay' = "block"
            /\ dataSuggestions' = SuggestionsAfterResponse(dataSuggestions, r)
    /\ UNCHANGED <<currentInputElement, lastWordInfo, debounceTimer, timers, cleared,
                   activeElement, elemValue, elemCursor, portVars, backgroundVars>>

\* hideSuggestionHost without the reset of lastWordInfo
DismissKeepsWord ==
    /\ hostDisplay = "block"
    /\ hostDisplay' = "none"
    /\ dataSuggestions' = <<>>
    /\ cleared' = TRUE
    /\ UNCHANGED <<currentInputElement, lastWordInfo, inflight, delivered,
                   debounceTimer, timers, activeElement, elemValue, elemCursor,
                   portVars, backgroundVars>>

\* the bar dispatches dismissRequestEvent: hideSuggestionHost
Dismiss ==
    /\ hostDisplay = "block"
    /\ hostDisplay' = "none"
    /\ dataSuggestions' = <<>>
    /\ lastWordInfo' = NoWord
    /\ cleared' = TRUE
    /\ UNCHANGED <<currentInputElement, inflight, delivered, debounceTimer, timers,
                   activeElement, elemValue, elemCursor, portVars, backgroundVars>>

\* the bar dispatches wordSelectedEvent for one of the words it shows:
\* replaceWord on the tracked word, whose dispatched input event runs the
\* input listener, then the suggestions are cleared
WordSelected(selectedWord) ==
    /\ hostDisplay = "block"
    /\ selectedWord \in Range(dataSuggestions)
    /\ IF currentInputElement # "none" /\ lastWordInfo # NoWord
       THEN LET element == currentInputElement
                originalValue == elemValue[element]
                prefix == SubSeq(originalValue, 1, Min2(lastWordInfo.start, Len(originalValue)))
                suffix == SubSeq(originalValue, lastWordInfo.end + 1, Len(originalValue))
                value == prefix \o selectedWord \o <<" ">> \o suffix
                newCursorPos == lastWordInfo.start + Len(selectedWord) + 1
            IN /\ Len(value) <= MaxText
               /\ Len(ClearTimeout(timers, debounceTimer)) < MaxTimers
               /\ elemValue' = [elemValue EXCEPT ![element] = value]
               /\ elemCursor' = [elemCursor EXCEPT ![element] = Min2(newCursorPos, Len(value))]
               /\ activeElement' = element
               /\ timers' = Append(ClearTimeout(timers, debounceTimer), element)
               /\ debounceTimer' = element
               /\ lastWordInfo' = NoWord
       ELSE UNCHANGED <<elemValue, elemCursor, activeElement, debounceTimer, timers,
                        lastWordInfo>>
    /\ dataSuggestions' = <<>>
    /\ cleared' = TRUE
    /\ UNCHANGED <<currentInputElement, hostDisplay, inflight, delivered,
                   portVars, backgroundVars>>

\* the port's onMessage listener handles a message the background posted.
\* No statement of the background script accepts a connection or posts on
\* a port, so portInbox stays empty and this step is never taken: it is
\* not part of a next-state relation
PortMessage ==
    /\ backgroundStatePort = "open"
    /\ portInbox # <<>>
    /\ portInbox' = Tail(portInbox)
    /\ dataLoadingState' =
            IF Head(portInbox).type = "BACKGROUND_STATE_UPDATE"
            THEN UpdateLoadingAttribute(Head(portInbox).payload)
            ELSE dataLoadingState
    /\ UNCHANGED <<currentInputElement, lastWordInfo, dataSuggestions, hostDisplay,
                   inflight, delivered, debounceTimer, timers, cleared, activeElement,
                   elemValue, elemCursor, backgroundStatePort, backgroundVars>>

\* the port's onDisconnect listener: the runtime closes a port that no
\* onConnect listener of the background accepted, or whose worker stopped
PortDisconnected ==
    /\ backgroundStatePort = "open"
    /\ backgroundStatePort' = "null"
    /\ dataLoadingState' = UpdateLoadingAttribute("error")
    /\ UNCHANGED <<currentInputElement, lastWordInfo, dataSuggestions, hostDisplay,
                   inflight, delivered, debounceTimer, timers, cleared, activeElement,
                   elemValue, elemCursor, portInbox, backgroundVars>>

NextContent ==
    \/ \E e \in Elements : \E text \in TextsOf(e) : InputEvent(e, text)
    \/ \E e \in Elements : \E c \in 0..Len(elemValue[e]) : Click(e, c)
    \/ Blur
    \/ DebouncedHandleInput
    \/ \E w \in BagToSet(inflight), r \in Responses : Deliver(w, r)
    \/ Dismiss
    \/ \E selectedWord \in Range(dataSuggestions) : WordSelected(selectedWord)

\* a page open while the extension is installed
InitPage ==
    /\ InitInstalled
    /\ wordsArray = <<shat, chat, cat>>
    /\ active = <<"phonex">>

SpecContent == InitPage /\ [][NextContent]_vars

\* a page open while the background builds its indexes after a fresh
\* install: the searchers initialize, the page holds the port
InitPort ==
    /\ Init
    /\ wordsArray = <<shat, chat, cat>>
    /\ active # <<>>

NextPort ==
    \/ Initialize
    \/ PortDisconnected

SpecPort == InitPort /\ [][NextPort]_vars

(***************************************************************************)
(* Properties of the index build (specification Spec)                      *)
(***************************************************************************)
NoDuplicates(s) == \A i \in 1..Len(s) : \A j \in 1..Len(s) : s[i] = s[j] => i = j

\* source word i is indexed by searcher a: non-empty after trimming and its
\* encoding does not fail
Indexable(a, i) ==
    /\ Trim(wordsArray[i]) # <<>>
    /\ ~AlgorithmThrows(a, ToLowerCase(Trim(wordsArray[i])))

CodeOf(a, i) == activeAlgorithm(a, ToLowerCase(Trim(wordsArray[i])))

\* C8: whenever the durable built flag of an index is true, every indexable
\* source word is in the stored bucket of its code (the flag is never set
\* for a partially written index).
C8_BuiltImpliesComplete ==
    \A a \in Active :
        initStatusStore[a] =>
            \A i \in 1..Len(wordsArray) :
                Indexable(a, i) =>
                    Trim(wordsArray[i]) \in Range(phoneticMapStore[a][CodeOf(a, i)])

\* C9: the durable built flag is written only by the step that follows the
\* completed final flush (stream exhausted, nothing left unflushed), so it
\* is false during the whole build and a kill at any point of it leaves it
\* false for the next run.
C9_FlagOnlyAfterFinalFlush ==
    /\ [](\A a \in Algos : pc[a] \in BuildSteps => ~initStatusStore[a])
    /\ [][\A a \in Algos :
            initStatusStore'[a] # initStatusStore[a] =>
                /\ initStatusStore'[a]
                /\ pc[a] = "mark"
                /\ idx[a] > Len(wordsArray)
                /\ batch[a] = <<>>]_vars

\* C9 witness: a run reopened the store of a build that was killed after a
\* committed flush and before the flag was written, and reads the flag false
C9_Witness ==
    \E a \in Active :
        /\ a \in interrupted
        /\ pc[a] = "check"
        /\ db[a]
        /\ phoneticMapStore[a] # EmptyBuckets
        /\ ~initStatusStore[a]

\* the two stores hold the same buckets: under every code the same words,
\* each as many times
SameBuckets(x, y) ==
    \A c \in Codes : Range(x[c]) = Range(y[c]) /\ Len(x[c]) = Len(y[c])

\* this run built the index of a and none of its flushes failed
BuiltCleanly(a) ==
    /\ pc[a] = "done"
    /\ <<a, "Building index">> \in console
    /\ <<a, "Batch write error">> \notin console

\* C10: a build that runs to its end without a failed write, also on a store
\* that interrupted builds left partially populated, ends with the buckets
\* of one uninterrupted build of the word list on an empty store.
C10_RerunConverges ==
    \A a \in Active :
        BuiltCleanly(a) =>
            SameBuckets(phoneticMapStore[a], UninterruptedBuild(a, wordsArray))

\* C10 witness: such a build completed on a store that a killed build had
\* left partially populated
C10_Witness ==
    \E a \in Active :
        /\ a \in interrupted
        /\ BuiltCleanly(a)
        /\ phoneticMapStore[a] # EmptyBuckets

\* the trimmed source words that searcher a files under code c
SourceWordsOf(a, c) ==
    {Trim(wordsArray[i]) : i \in {j \in 1..Len(wordsArray) : Indexable(a, j) /\ CodeOf(a, j) = c}}

\* C11: after a build that completed with no failure, the stored bucket of
\* every code c holds exactly the trimmed, non-empty source words (in their
\* original casing) whose lower-cased form encodes to c, each once.
C11_BucketsExact ==
    \A a \in Active :
        BuiltCleanly(a) =>
            \A c \in Codes :
                /\ Range(phoneticMapStore[a][c]) = SourceWordsOf(a, c)
                /\ Len(phoneticMapStore[a][c]) = Cardinality(SourceWordsOf(a, c))

\* C11 witness: a clean build of [shat, chat, cat, chatte], whose two
\* flushes both write under the code of chat and chatte
C11_Witness ==
    /\ wordsArray = <<shat, chat, cat, chatte>>
    /\ BuiltCleanly("soundex2")
    /\ phoneticMapStore["soundex2"]["C300"] = <<chat, chatte>>
    /\ phoneticMapStore["soundex2"]["S300"] = <<shat>>

\* the words the batch of searcher a holds for code c
BatchWordsOf(a, c) ==
    UNION {Range(batch[a][i].ws) : i \in {j \in 1..Len(batch[a]) : batch[a][j].k = c}}

Flushing(a) == pc[a] \in {"flush", "finalFlush"}

\* C12: merging a batch into the store is an idempotent union: for the
\* batch about to be written, every resulting bucket is the union of the
\* stored words and the batch's words for that code without a duplicate,
\* codes absent from the batch keep their bucket, and merging the batch a
\* second time changes nothing; every step that changes a store only adds
\* words to buckets.
C12_MergeIdempotentUnion ==
    /\ [](\A a \in Active :
            Flushing(a) =>
                LET once == WriteBatch(phoneticMapStore[a], batch[a])
                IN /\ WriteBatch(once, batch[a]) = once
                   /\ \A c \in Codes :
                         /\ Range(once[c]) =
                               Range(phoneticMapStore[a][c]) \cup BatchWordsOf(a, c)
                         /\ NoDuplicates(once[c])
                         /\ BatchWordsOf(a, c) = {} => once[c] = phoneticMapStore[a][c])
    /\ [][\A a \in Active : \A c \in Codes :
            /\ Range(phoneticMapStore[a][c]) \subseteq Range(phoneticMapStore'[a][c])
            /\ phoneticMapStore'[a][c] # phoneticMapStore[a][c] =>
                  /\ Flushing(a)
                  /\ Range(phoneticMapStore'[a][c]) =
                        Range(phoneticMapStore[a][c]) \cup BatchWordsOf(a, c)
                  /\ NoDuplicates(phoneticMapStore'[a][c])]_vars

\* C12 witness: a re-run resent, and merged, a batch whose words were
\* partly stored already by the build that a kill interrupted
C12_Witness ==
    \E a \in Active :
        /\ a \in interrupted
        /\ pc[a] = "mark"
        /\ <<a, "Batch write error">> \notin console
        /\ \E c \in Codes : Len(phoneticMapStore[a][c]) >= 2

\* no two words of s are equal when compared case-insensitively
NoCaseDuplicates(s) ==
    \A i \in 1..Len(s) : \A j \in 1..Len(s) :
        ToLowerCase(s[i]) = ToLowerCase(s[j]) => i = j

\* C20 as stated: no bucket ever holds two words that are equal when
\* compared case-insensitively.
C20_AsStated ==
    \A a \in Active : \A c \in Codes : NoCaseDuplicates(phoneticMapStore[a][c])

\* C20 amended: no bucket ever holds the same surface form twice, and every
\* stored word is a trimmed source word in its original casing, under the
\* code of its lower-cased form; source words that differ only in case are
\* distinct entries of their common bucket.
C20_NoSurfaceDuplicates ==
    \A a \in Active : \A c \in Codes :
        /\ NoDuplicates(phoneticMapStore[a][c])
        /\ Range(phoneticMapStore[a][c]) \subseteq SourceWordsOf(a, c)

\* C20 witness: "Chat" and "chat" of the word list are in one bucket
C20_Witness ==
    \E a \in Active :
        /\ BuiltCleanly(a)
        /\ <<"C", "h", "a", "t">> \in Range(phoneticMapStore[a][activeAlgorithm(a, chat)])
        /\ chat \in Range(phoneticMapStore[a][activeAlgorithm(a, chat)])

(***************************************************************************)
(* Properties of initialize() (specification SpecInit)                     *)
(***************************************************************************)
\* the initialization of searcher a failed: the catch block of
\* _doInitialize ran
Failed(a) == pc[a] = "failed"

\* this step is a call of suggestMatches
SuggestCalled == call.state = "none" /\ call'.state # "none"

\* the outcomes the promises handed out by initialize() have settled with,
\* the stored promise included
CallOutcomes(a) ==
    initCalls[a].outcomes \cup ({initializationPromise[a]} \cap Settled)

\* C13: whatever the number and the interleaving of initialize() calls on a
\* searcher, the body of _doInitialize is entered once in the process run,
\* its open/build/mark sequence is never started again, and all the calls
\* settle with one outcome.
C13_InitializeOnce ==
    /\ [](\A a \in Active :
            /\ initCalls[a].runs = 1
            /\ Cardinality(CallOutcomes(a)) <= 1
            /\ initializationPromise[a] = "pending" => initCalls[a].outcomes = {})
    /\ [][\A a \in Active :
            /\ pc'[a] = "open" => pc[a] = "open"
            /\ pc[a] \in {"done", "failed"} => pc'[a] = pc[a]
            /\ initializationPromise[a] \in Settled =>
                  initializationPromise'[a] = initializationPromise[a]]_vars

\* C13 witness: initialize() was called MaxInitCalls times on a searcher
\* whose initialization failed and more than once on one that is ready
C13_Witness ==
    /\ \E a \in Active :
          /\ initCalls[a].calls = MaxInitCalls
          /\ pc[a] = "failed"
          /\ initCalls[a].outcomes = {"rejected"}
    /\ \E a \in Active :
          /\ initCalls[a].calls > 1
          /\ isReady[a]
          /\ initCalls[a].outcomes = {"fulfilled"}

\* C14: once the initialization of a searcher has failed, the searcher stays
\* failed and never becomes ready in the process run, whatever initialize()
\* calls follow, and a suggestMatches call on it returns [] in the calling
\* step, never raising.
C14_FailedStaysFailed ==
    /\ [](\A a \in Active : Failed(a) => ~isReady[a] /\ ~isInitializing[a])
    /\ [](call.state # "raised")
    /\ [][\A a \in Active : Failed(a) => Failed(a)' /\ ~isReady'[a]]_vars
    /\ [][SuggestCalled /\ Failed(call'.a) =>
            call'.state = "returned" /\ call'.result = <<>>]_vars

\* C14 witness: after the initialization failed at markAsInitialized, with
\* chat stored, initialize() was called again and a call of
\* suggestMatches("chat") on the failed searcher returned []
C14_Witness ==
    /\ call.state = "returned"
    /\ call.query = chat
    /\ call.result = <<>>
    /\ ~call.ready
    /\ Failed(call.a)
    /\ initCalls[call.a].calls = MaxInitCalls
    /\ initCalls[call.a].outcomes = {"rejected"}
    /\ chat \in Range(phoneticMapStore[call.a][activeAlgorithm(call.a, chat)])

\* C15: a suggestMatches call on a searcher that is not ready (initializing,
\* building its index, or failed) returns [] in the calling step: it never
\* suspends in a lookup and leaves the searcher as it is.
C15_NotReadyReturnsAtOnce ==
    /\ [](call.state = "lookup" => call.ready)
    /\ [](call.state = "returned" /\ ~call.ready => call.result = <<>>)
    /\ [][SuggestCalled /\ ~isReady[call'.a] =>
            /\ call'.state = "returned"
            /\ call'.result = <<>>
            /\ UNCHANGED <<durable, searcherVars>>]_vars

\* C15 witness: a call returned [] while the build of its searcher was
\* suspended in a flush, chat being stored already
C15_Witness ==
    /\ call.state = "returned"
    /\ call.query = chat
    /\ ~call.ready
    /\ call.result = <<>>
    /\ pc[call.a] = "finalFlush"
    /\ chat \in Range(phoneticMapStore[call.a][activeAlgorithm(call.a, chat)])

\* the word list of searcher a could not be fetched or parsed in this run
WordListError(a) == <<a, "Word list error">> \in console

\* C18: when the word list cannot be fetched or parsed, the build aborts
\* with no bucket written (the store of a fresh install stays empty, the
\* failing step and the later ones write nothing), the durable built flag
\* is and stays false, the promise of initialize() is rejected and the
\* searcher is not ready.
C18_FetchFailureAborts ==
    /\ [](\A a \in Active :
            WordListError(a) =>
                /\ Failed(a)
                /\ ~initStatusStore[a]
                /\ initializationPromise[a] = "rejected"
                /\ ~isReady[a]
                /\ ~db[a])
    /\ [][\A a \in Active :
            WordListError(a)' =>
                /\ phoneticMapStore'[a] = phoneticMapStore[a]
                /\ initStatusStore'[a] = initStatusStore[a]
                /\ ~WordListError(a) => pc[a] = "fetch"]_vars
    /\ [](\A a \in Active : WordListError(a) => phoneticMapStore[a] = EmptyBuckets)

\* C18 witness: the fetch of a searcher failed on a fresh install while
\* another searcher had its index built
C18_Witness ==
    /\ \E a \in Active : WordListError(a) /\ phoneticMapStore[a] = EmptyBuckets
    /\ \E a \in Active : isReady[a] /\ phoneticMapStore[a] # EmptyBuckets

(***************************************************************************)
(* Reference definitions for the query properties: what "stably sorted     *)
(* by distance" and "deduplicated" mean, stated by positions and not by    *)
(* the algorithms of the code                                              *)
(***************************************************************************)
Distance(nq, w) == levenshtein(nq, ToLowerCase(w))

\* position of element i of s once s is sorted by ascending distance to nq,
\* elements of equal distance keeping their order
RankOf(s, i, nq) ==
    1 + Cardinality({j \in 1..Len(s) :
            \/ Distance(nq, s[j]) < Distance(nq, s[i])
            \/ Distance(nq, s[j]) = Distance(nq, s[i]) /\ j < i})

StablySorted(s, nq) ==
    AsArray([r \in 1..Len(s) |-> s[CHOOSE i \in 1..Len(s) : RankOf(s, i, nq) = r]])

\* s without the later occurrences of its elements
FirstOccurrences(s) ==
    LET first == {i \in 1..Len(s) : \A j \in 1..(i - 1) : s[j] # s[i]}
    IN AsArray([r \in 1..Cardinality(first) |->
          s[CHOOSE i \in first : Cardinality({j \in first : j < i}) = r - 1]])

\* the first n elements of s
Prefix(s, n) == AsArray([i \in 1..(IF n < Len(s) THEN n ELSE Len(s)) |-> s[i]])

Ascending(s, nq) ==
    \A i \in 1..Len(s) : \A j \in i..Len(s) : Distance(nq, s[i]) <= Distance(nq, s[j])

\* the values the tasks of the fan-out fulfilled with, one after the other
\* in allow-list order (a task that did not fulfil has value <<>>)
RECURSIVE ValuesFrom(_)
ValuesFrom(i) ==
    IF i > Len(active) THEN <<>> ELSE taskValue[active[i]] \o ValuesFrom(i + 1)

\* the claimed result of getSuggestions for the values the searchers returned
MergedRanked ==
    Prefix(StablySorted(FirstOccurrences(ValuesFrom(1)), NormalizeQuery(query)),
           FINAL_SUGGESTION_LIMIT)

(***************************************************************************)
(* Properties of suggestMatches (specification SpecSuggest)                *)
(***************************************************************************)
\* the normal form of the query as the claim writes it
LowerTrim(q) == ToLowerCase(Trim(q))

\* the direct call returned, was made on a ready searcher, and neither the
\* algorithm nor the lookup failed
CallSucceeded ==
    /\ call.state = "returned"
    /\ call.ready
    /\ call.lookup # "rejected"
    /\ ~AlgorithmThrows(call.a, LowerTrim(call.query))

ClaimedSuggestResult ==
    Prefix(StablySorted(phoneticMapStore[call.a][activeAlgorithm(call.a, LowerTrim(call.query))],
                        LowerTrim(call.query)),
           call.limit)

\* C1 as stated: for every query and limit, suggest on a Ready searcher
\* returns the first `limit` elements of the bucket of the code of the
\* normalized query, stably sorted by ascending distance.
C1_AsStated == CallSucceeded => call.result = ClaimedSuggestResult

\* C1 amended: the same for every limit >= 0 and every query that is not
\* empty once normalized; a query that is empty once normalized gets the
\* empty list, whatever the bucket of its code holds.  In both cases at
\* most `limit` words come back, in ascending distance order.
C1_SuggestRanked ==
    CallSucceeded /\ call.limit >= 0 =>
        /\ LowerTrim(call.query) # <<>> => call.result = ClaimedSuggestResult
        /\ LowerTrim(call.query) = <<>> => call.result = <<>>
        /\ Len(call.result) <= call.limit
        /\ Ascending(call.result, LowerTrim(call.query))

\* C1 witness: the scenario of the claim (query "shat" over the bucket
\* [chat, chatte, shat])
C1_Witness ==
    /\ CallSucceeded
    /\ call.query = shat
    /\ call.limit = MaxLimit
    /\ phoneticMapStore[call.a][activeAlgorithm(call.a, shat)] = <<chat, chatte, shat>>
    /\ call.result = <<shat, chat, chatte>>

(***************************************************************************)
(* Properties of getAllSuggestions (specification SpecQuery)               *)
(***************************************************************************)
\* C2: getSuggestions returns the first FINAL_SUGGESTION_LIMIT elements of
\* the stable ascending-distance sort of the deduplicated concatenation, in
\* allow-list order, of the lists the active searchers returned.
C2_MergedRanked ==
    qpc = "returned" => finalSuggestions = MergedRanked

\* C2 witness: the scenario of the claim, two searchers returning
\* [chat, chatte] and [chat, shat] for "chat", final limit 2
C2_Witness ==
    /\ qpc = "returned"
    /\ query = chat
    /\ Len(active) = 2
    /\ taskValue[active[1]] = <<chat, chatte>>
    /\ taskValue[active[2]] = <<chat, shat>>
    /\ finalSuggestions = <<chat, shat>>

\* C3: the returned list never holds the same word twice.
C3_NoDuplicates ==
    qpc = "returned" => NoDuplicates(finalSuggestions)

\* C3 witness: two searchers returned the same word and it is in the result
C3_Witness ==
    /\ qpc = "returned"
    /\ Len(active) = 2
    /\ \E w \in Range(taskValue[active[1]]) \cap Range(taskValue[active[2]]) :
           w \in Range(finalSuggestions)

\* C4: with a failed searcher among the active ones, getSuggestions still
\* completes (the task of the failed searcher can settle, and once every
\* task has settled, rejected ones included, the awaited fan-out has
\* settled, which is all Combine waits for), the failed searcher contributes
\* nothing, and the
\* result is the ranked merge of what the others returned.
C4_FailedSearcherIsolated ==
    /\ qpc = "returned" =>
          /\ \A a \in Active : Failed(a) => task[a] = "rejected" /\ taskValue[a] = <<>>
          /\ (\E a \in Active : Failed(a)) =>
                /\ finalSuggestions = MergedRanked
                /\ Range(finalSuggestions) \subseteq
                      UNION {Range(taskValue[a]) : a \in {b \in Active : ~Failed(b)}}
    /\ \A a \in Active :
          qpc = "running" /\ Failed(a) /\ task[a] = "awaitInit" => ENABLED TaskResumes(a)
    /\ (qpc = "running" /\ \A a \in Active : task[a] \in Settled) => FanOutSettled

\* C4 witness: a result with words of a ready searcher, next to a failed one
C4_Witness ==
    /\ qpc = "returned"
    /\ \E a \in Active : Failed(a)
    /\ \E a \in Active : isReady[a] /\ taskValue[a] # <<>>
    /\ finalSuggestions # <<>>

\* C5 as stated: a searcher that never completes does not delay the others:
\* once every other searcher's task has settled, getSuggestions can return
\* without waiting for the hanging one.
C5_AsStated ==
    (/\ qpc = "running"
     /\ \E a \in Active : pc[a] = "hung"
     /\ \E a \in Active : pc[a] # "hung"
     /\ \A a \in Active : pc[a] # "hung" => task[a] \in Settled)
        => ENABLED Combine

\* C5 amended: a searcher whose initialization rejected contributes an empty
\* list and the others' words are returned, but getSuggestions returns only
\* when the task of every active searcher has settled; while a searcher
\* hangs, the query stays in flight.
C5_ReturnsWhenAllSettled ==
    /\ [](\A a \in Active : task[a] = "rejected" => taskValue[a] = <<>>)
    /\ [][qpc = "running" /\ qpc' # "running" =>
            /\ qpc' = "returned"
            /\ \A a \in Active : task[a] \in Settled
            /\ finalSuggestions' = MergedRanked]_vars
    /\ [][\A a \in Active :
            pc[a] = "hung" /\ task[a] = "awaitInit" =>
                pc'[a] = "hung" /\ task'[a] = "awaitInit" /\ qpc' = qpc]_vars

\* C5 witness: the query is in flight, every healthy searcher has answered
\* and one searcher hangs
C5_Witness ==
    /\ qpc = "running"
    /\ \E a \in Active : pc[a] = "hung" /\ task[a] = "awaitInit"
    /\ \E a \in Active : task[a] = "fulfilled" /\ taskValue[a] # <<>>

\* C6: getSuggestions never raises, whatever the states of the searchers;
\* when no searcher contributes a word it returns the empty list.
C6_NeverRaises ==
    /\ qpc # "raised"
    /\ (qpc = "returned" /\ \A a \in Active : taskValue[a] = <<>>)
          => finalSuggestions = <<>>

\* C6 witness: a query returned [] with one searcher failed and the lookup
\* of another one rejected
C6_Witness ==
    /\ qpc = "returned"
    /\ finalSuggestions = <<>>
    /\ NormalizeQuery(query) # <<>>
    /\ \E a \in Active : Failed(a)
    /\ \E a \in Active : isReady[a] /\ <<a, "Error during search">> \in console

\* C7: with an empty allow-list a call returns [] in the calling step, no
\* task is ever created and nothing is raised.
C7_EmptyAllowList ==
    /\ [](active = <<>> =>
            /\ qpc \in {"idle", "returned"}
            /\ finalSuggestions = <<>>
            /\ \A a \in Algos : task[a] = "none")
    /\ [][active = <<>> /\ qpc' # qpc => qpc' = "returned"]_vars

\* C7 witness: a call returned with the empty allow-list
C7_Witness ==
    /\ active = <<>>
    /\ qpc = "returned"
    /\ <<"background", "No active Talisman algorithms configured">> \in console

\* C16: suggestMatches never raises: when the algorithm throws on the query
\* or the lookup of the bucket fails, the call returns [].
C16_SuggestNeverRaises ==
    /\ call.state \in {"none", "lookup", "returned"}
    /\ (/\ call.state = "returned"
        /\ \/ call.lookup = "rejected"
           \/ call.ready /\ LowerTrim(call.query) # <<>> /\
              AlgorithmThrows(call.a, LowerTrim(call.query)))
          => call.result = <<>>

\* C16 witness: the lookup of a non-empty bucket failed and the call
\* returned []
C16_Witness ==
    /\ call.state = "returned"
    /\ call.lookup = "rejected"
    /\ call.result = <<>>
    /\ call.limit > 0
    /\ phoneticMapStore[call.a][activeAlgorithm(call.a, LowerTrim(call.query))] # <<>>

\* the task of searcher a fulfilled with the result of a suggestMatches
\* call whose lookup resolved (no lookup of a failed in this process run)
TaskAnswered(a) ==
    /\ task[a] = "fulfilled"
    /\ isReady[a]
    /\ <<a, "Error during search">> \notin console

\* C17: the results depend on the query only through its trimmed,
\* lower-cased form: what a searcher answered, and what getSuggestions
\* returned, is what every query of the same normal form gets against the
\* same index; a query that is empty once normalized gets the empty result.
C17_NormalizationInvariant ==
    qpc = "returned" =>
        /\ \A q2 \in Queries :
              LowerTrim(q2) = LowerTrim(query) =>
                 /\ finalSuggestions = FinalSuggestions(AllResults, q2)
                 /\ \A a \in Active :
                       TaskAnswered(a) =>
                          taskValue[a] = SuggestResult(phoneticMapStore[a], a, q2,
                                                       SUGGESTIONS_PER_METHOD)
        /\ LowerTrim(query) = <<>> =>
              /\ finalSuggestions = <<>>
              /\ \A a \in Active : taskValue[a] = <<>>

\* C17 witness: the query " ChAt " got the words of "chat" from an index of
\* lower-case words
C17_Witness ==
    /\ qpc = "returned"
    /\ query = ChAtQuery
    /\ \E a \in Active : TaskAnswered(a) /\ chat \in Range(taskValue[a])
    /\ Len(finalSuggestions) > 0
    /\ finalSuggestions[1] = chat


(***************************************************************************)
(* C19: a response that carries an empty match list, or that reports a     *)
(* failure, leaves the data-suggestions attribute of the host exactly as   *)
(* it was: the suggestions displayed before are kept, never cleared.       *)
(***************************************************************************)
EmptyOrFailed == { r \in Responses : r.kind = "failure" \/ r.matches = <<>> }

C19_EmptyResponseKeepsSuggestions ==
    [][(\E w \in BagToSet(inflight), r \in EmptyOrFailed : Deliver(w, r))
            => dataSuggestions' = dataSuggestions]_vars

\* suggestions are displayed, and the last callback, called in a context
\* still valid, got a response with no match or reporting a failure
C19_Witness ==
    /\ dataSuggestions # <<>>
    /\ delivered.valid
    /\ delivered.kind \in {"matches", "failure"}
    /\ delivered.matches = <<>>

(***************************************************************************)
(* C21: at every point of a build the number of words held in the batch    *)
(* is at most batchSize, whatever the length of the word list and the      *)
(* distribution of the codes.                                              *)
(***************************************************************************)
RECURSIVE BatchWordCount(_)
BatchWordCount(b) ==
    IF b = <<>> THEN 0 ELSE Len(Head(b).ws) + BatchWordCount(Tail(b))

C21_BatchHoldsAtMostBatchSizeWords ==
    \A a \in Active : BatchWordCount(batch[a]) <= batchSize

(***************************************************************************)
(* C22: within one build, the builder does not resume streaming or start   *)
(* another flush until every per-bucket write of the current flush has     *)
(* settled, also when one of those writes fails: whenever the builder is   *)
(* past a flush (streaming, in a later flush, or after the loop), no       *)
(* per-bucket write of that flush is outstanding.                          *)
(***************************************************************************)
C22_FlushSettledBeforeResuming ==
    \A a \in Active : staleWrites[a] = {}


(***************************************************************************)
(* C23: a storage write failure inside a flush does not abort the build:   *)
(* the failure is logged, the loop resumes with the next word and flushes  *)
(* what remains, and buildAndStorePhoneticIndex returns without raising    *)
(* (_doInitialize goes on to markAsInitialized).                           *)
(***************************************************************************)
BatchWriteError(a) == <<a, "Batch write error">> \in console

C23_WriteFailureDoesNotAbort ==
    [][\A a \in Active :
        /\ FlushFail(a) =>
              LET r == StreamWords(a, wordsArray, idx[a], <<>>)
              IN /\ BatchWriteError(a)'
                 /\ pc'[a] = StepAfterStream(r)
                 /\ idx'[a] = r.idx
                 /\ batch'[a] = r.batch
                 /\ initializationPromise'[a] = "pending"
                 /\ db'[a]
        /\ FinalFlushFail(a) =>
              /\ BatchWriteError(a)'
              /\ pc'[a] = "mark"
              /\ initializationPromise'[a] = "pending"
              /\ db'[a]
        /\ BatchWriteError(a) /\ pc[a] \in {"flush", "finalFlush", "mark"}
              /\ pc'[a] = "failed" => pc[a] = "mark"]_vars

\* a build in which a flush failed ran to its end and the searcher is
\* ready; another flush of the build wrote its words
C23_Witness ==
    \E a \in Active :
        /\ BatchWriteError(a)
        /\ pc[a] = "done"
        /\ isReady[a]
        /\ initCalls[a].runs = 1
        /\ interrupted = {}
        /\ phoneticMapStore[a] # EmptyBuckets
        /\ phoneticMapStore[a] # UninterruptedBuild(a, wordsArray)

(***************************************************************************)
(* C24: words whose code is the empty string are not dropped: after a      *)
(* completed build they are all in the bucket keyed by "", each once (also *)
(* when they are the only or the last words of the list), and a query      *)
(* whose code is "" looks that bucket up and is answered from it.          *)
(***************************************************************************)
\* the call at hand is one of a ready searcher for a query whose code is ""
EmptyCodeCall ==
    /\ call.state # "none"
    /\ call.ready
    /\ NormalizeQuery(call.query) # <<>>
    /\ ~AlgorithmThrows(call.a, NormalizeQuery(call.query))
    /\ activeAlgorithm(call.a, NormalizeQuery(call.query)) = ""

C24_EmptyCodeIndexed ==
    /\ \A a \in Active :
          /\ Range(phoneticMapStore[a][""]) = SourceWordsOf(a, "")
          /\ Len(phoneticMapStore[a][""]) = Cardinality(SourceWordsOf(a, ""))
    /\ EmptyCodeCall =>
          /\ call.state = "lookup" \/ call.lookup # "none"
          /\ call.lookup = "resolved" =>
                call.result = Slice(SortByDistance(phoneticMapStore[call.a][""],
                                                   NormalizeQuery(call.query)),
                                    call.limit)

\* the list holds only words with the empty code, and the query ah, whose
\* code is empty, was answered with them
C24_Witness ==
    /\ wordsArray = <<ah, ee>>
    /\ EmptyCodeCall
    /\ call.query = ah
    /\ call.lookup = "resolved"
    /\ call.result = <<ah, ee>>

(***************************************************************************)
(* C25: when the encoder raises on a word during a build, only that word   *)
(* is skipped: it is in no bucket, every other word of the list is indexed *)
(* exactly as if the failing word were absent from the list, and the       *)
(* build completes.                                                        *)
(***************************************************************************)
EncoderRaises(a, w) == AlgorithmThrows(a, ToLowerCase(Trim(w)))

\* the word list without the words on which the encoder of a raises
WithoutRaising(a, words) == SelectSeq(words, LAMBDA w : ~EncoderRaises(a, w))

C25_EncoderFailureSkipsOneWord ==
    \A a \in Active :
        BuiltCleanly(a) =>
            /\ phoneticMapStore[a] = UninterruptedBuild(a, WithoutRaising(a, wordsArray))
            /\ \A i \in 1..Len(wordsArray), c \in Codes :
                  EncoderRaises(a, wordsArray[i])
                      => Trim(wordsArray[i]) \notin Range(phoneticMapStore[a][c])
            /\ isReady[a] /\ initStatusStore[a]

\* the encoder of soundex2 raised on "#" and the build went on: chat, which
\* comes after it in the list, is indexed, and the searcher is ready
C25_Witness ==
    /\ BuiltCleanly("soundex2")
    /\ \E i \in 1..Len(wordsArray) :
          /\ EncoderRaises("soundex2", wordsArray[i])
          /\ \E j \in (i + 1)..Len(wordsArray) :
                wordsArray[j] \in Range(phoneticMapStore["soundex2"]["C300"])
    /\ isReady["soundex2"]

(***************************************************************************)
(* C26: when the durable built flag is already true at initialization      *)
(* (after a process restart), the searcher becomes ready without fetching  *)
(* the word list and without writing to a bucket or to the flag: no step   *)
(* taken while the flag is true enters the build or changes the persisted  *)
(* index, and the step that answers checkIfInitialized makes the searcher  *)
(* ready.                                                                  *)
(***************************************************************************)
C26_BuiltFlagSkipsBuild ==
    [][\A a \in Active :
         initStatusStore[a] =>
            /\ phoneticMapStore'[a] = phoneticMapStore[a]
            /\ initStatusStore'[a]
            /\ pc'[a] \notin BuildSteps
            /\ <<a, "Building index">> \notin console => <<a, "Building index">> \notin console'
            /\ pc[a] = "check" /\ pc'[a] = "done"
                  => isReady'[a] /\ db'[a] /\ ~isInitializing'[a]]_vars

\* a restarted process found the flag set: the searcher is ready and this
\* process run did not build
C26_Witness ==
    \E a \in Active :
        /\ initStatusStore[a]
        /\ isReady[a]
        /\ pc[a] = "done"
        /\ <<a, "Building index">> \notin console
        /\ phoneticMapStore[a] # EmptyBuckets

(***************************************************************************)
(* C27: in every reachable state a searcher that reports ready has an open *)
(* store and a durable built flag that is set; once ready it stays ready   *)
(* for the rest of the process run; and it is never ready and initializing *)
(* at once where other code can observe it (at a suspension point).        *)
(***************************************************************************)
C27_ReadyIsBuiltAndStable ==
    /\ [](\A a \in Algos :
            /\ isReady[a] => db[a] /\ initStatusStore[a]
            /\ ~(isReady[a] /\ isInitializing[a])
            /\ isReady[a] => a \in Active /\ pc[a] = "done")
    /\ [][\A a \in Algos : isReady[a] => isReady'[a]]_vars

\* a ready searcher on which initialize() was called again
C27_Witness ==
    \E a \in Active :
        /\ isReady[a]
        /\ db[a]
        /\ initStatusStore[a]
        /\ ~isInitializing[a]
        /\ initCalls[a].calls = MaxInitCalls
        /\ "fulfilled" \in initCalls[a].outcomes

(***************************************************************************)
(* C28: no bucket lookup of a query is executed against the store of a     *)
(* searcher while its build is in progress: whenever a lookup is pending   *)
(* or was made, the initialization of that searcher had completed, its     *)
(* batch was written and its built flag is set.                            *)
(***************************************************************************)
LookupIssued == call.state = "lookup" \/ call.lookup # "none"

C28_NoLookupDuringBuild ==
    /\ LookupIssued =>
          /\ call.ready
          /\ pc[call.a] = "done"
          /\ batch[call.a] = <<>>
          /\ initStatusStore[call.a]
    /\ \A a \in Active :
          pc[a] \in {"open", "check"} \cup BuildSteps
              => ~(LookupIssued /\ call.a = a)

\* a searcher built its index in this process run and a lookup of a query
\* was then answered from it
C28_Witness ==
    /\ call.lookup = "resolved"
    /\ <<call.a, "Building index">> \in console
    /\ call.result # <<>>

(***************************************************************************)
(* C29: queries are read-only: no step of a suggest or getSuggestions call *)
(* changes a bucket or the built flag of an index; a bucket changes only   *)
(* by the merge of the batch of its builder, and the flag only by          *)
(* markAsInitialized.                                                      *)
(***************************************************************************)
C29_QueriesReadOnly ==
    [][/\ queryVars' # queryVars => UNCHANGED <<phoneticMapStore, initStatusStore>>
       /\ \A a \in Algos :
             /\ phoneticMapStore'[a] # phoneticMapStore[a] =>
                   /\ Flushing(a)
                   /\ phoneticMapStore'[a] = WriteBatch(phoneticMapStore[a], batch[a])
             /\ initStatusStore'[a] # initStatusStore[a] =>
                   pc[a] = "mark" /\ initStatusStore'[a]]_vars

\* getSuggestions returned words looked up in the indexes the searchers
\* built in this process run, which hold what the build wrote
C29_Witness ==
    /\ qpc = "returned"
    /\ finalSuggestions # <<>>
    /\ \A a \in Active :
          /\ BuiltCleanly(a)
          /\ task[a] = "fulfilled"
          /\ phoneticMapStore[a] = UninterruptedBuild(a, wordsArray)

(***************************************************************************)
(* C30: for a fixed query and fixed index contents, the list returned by   *)
(* getSuggestions is the same for every order in which the initializations *)
(* of the searchers and their queries complete: it is determined by the    *)
(* query, the buckets, and which searchers answered, taken in the order of *)
(* ACTIVE_TALISMAN_ALGORITHMS.                                             *)
(***************************************************************************)
\* what the tasks settle with when no lookup fails, from the query and the
\* stores alone
OrderFreeResults ==
    AsArray([i \in 1..Len(active) |->
        IF task[active[i]] = "fulfilled"
        THEN [status |-> "fulfilled",
              value |-> SuggestResult(phoneticMapStore[active[i]], active[i], query,
                                      SUGGESTIONS_PER_METHOD)]
        ELSE [status |-> "rejected", value |-> <<>>]])

C30_CompletionOrderIrrelevant ==
    (/\ qpc = "returned"
     /\ Len(active) > 0
     /\ \A a \in Active : task[a] = "fulfilled" => TaskAnswered(a))
        => /\ finalSuggestions = FinalSuggestions(OrderFreeResults, query)
           /\ Range(settleOrder) = Active

\* the task of the second searcher of the list settled before that of the
\* first, each with words the other did not return
C30_Witness ==
    /\ qpc = "returned"
    /\ Len(active) = 2
    /\ settleOrder = <<active[2], active[1]>>
    /\ TaskAnswered(active[1]) /\ TaskAnswered(active[2])
    /\ Range(taskValue[active[1]]) \ Range(taskValue[active[2]]) # {}
    /\ Range(taskValue[active[2]]) \ Range(taskValue[active[1]]) # {}
    /\ finalSuggestions # <<>>

(***************************************************************************)
(* C36: the background answers every CURRENT_WORD_UPDATE message whose     *)
(* payload is a string exactly once, with {success: true, matches} or      *)
(* {success: false, error}, provided the initialization of every active    *)
(* searcher settles; a message of another type or payload gets no          *)
(* response and triggers no query.                                         *)
(***************************************************************************)
\* the lookups and the continuations of settled promises are run by the
\* event loop: weak fairness on the steps of the fan-out
\* with the enabling conditions of the steps written out
TaskCanStep(a) ==
    /\ qpc = "running"
    /\ \/ task[a] = "awaitInit" /\ initializationPromise[a] \in Settled
       \/ task[a] = "lookup"

CanCombine == qpc = "running" /\ FanOutSettled

SpecListenerFair ==
    /\ SpecListener
    /\ \A a \in Algos : \/ []<>(~TaskCanStep(a))
                         \/ []<><<task'[a] # task[a]>>_vars
    /\ \/ []<>(~CanCombine)
       \/ []<><<qpc = "running" /\ qpc' # "running">>_vars

InitializationsSettled == \A a \in Active : initializationPromise[a] \in Settled

Answered ==
    /\ Len(sent) = 1
    /\ \/ sent[1] = [success |-> TRUE, matches |-> finalSuggestions]
       \/ sent[1] = [success |-> FALSE, matches |-> <<>>]

C36_OneResponsePerRequest ==
    /\ [](Len(sent) <= 1)
    /\ [](qpc = "running" => sent = <<>>)
    /\ [](qpc \in {"returned", "raised"} => Answered)
    /\ [][\A message \in Messages :
            (/\ message.type # "CURRENT_WORD_UPDATE" \/ message.payloadType # "string"
             /\ OnMessage(message)) => UNCHANGED queryVars]_vars
    /\ (qpc = "running" /\ InitializationsSettled) ~> (qpc # "running" /\ Answered)

\* C36 witness: a request was answered with words after a message of
\* another kind had been logged and left unanswered
C36_Witness ==
    /\ qpc = "returned"
    /\ Len(sent) = 1
    /\ sent[1].success
    /\ sent[1].matches # <<>>
    /\ <<"background", "Received unhandled message type">> \in console

(***************************************************************************)
(* C31: when the query is empty after lower-casing and trimming,           *)
(* getSuggestions returns the empty list and computes no edit distance,    *)
(* whatever the searchers returned.                                        *)
(***************************************************************************)
C31_EmptyQueryShortCircuits ==
    [][(Combine /\ NormalizeQuery(query) = <<>>) =>
            /\ qpc' = "returned"
            /\ finalSuggestions' = <<>>
            /\ LevenshteinCalls(AllResults, query) = {}]_vars

\* C31 witness: a query of blanks returned [] although a searcher had
\* returned words
C31_Witness ==
    /\ qpc = "returned"
    /\ query # <<>>
    /\ NormalizeQuery(query) = <<>>
    /\ \E a \in Active : task[a] = "fulfilled" /\ taskValue[a] # <<>>
    /\ finalSuggestions = <<>>

(***************************************************************************)
(* C34: the content script receives the state of the background over the   *)
(* port 'suggestionState' and reflects it in the host: once every active   *)
(* searcher is ready and the port has nothing left to deliver,             *)
(* data-loading-state is 'ready' and the bar has left its loading state.   *)
(***************************************************************************)
AllSearchersReady == active # <<>> /\ \A a \in Active : isReady[a]

C34_ReadyReflected ==
    (AllSearchersReady /\ portInbox = <<>>) =>
        (dataLoadingState = "ready" /\ ~IsLoading(dataLoadingState))

(***************************************************************************)
(* C32: a suggestion response changes the bar only if, when it is          *)
(* delivered, the content script still tracks a word equal to the          *)
(* requested one, the tracked input element has the focus and its cursor   *)
(* lies within the range of the tracked word; a response that arrives      *)
(* after the tracked word changed or was reset leaves data-suggestions and *)
(* the visibility of the host unchanged.                                   *)
(***************************************************************************)
TrackedAtDelivery(w) ==
    /\ lastWordInfo # NoWord
    /\ lastWordInfo.word = w
    /\ activeElement = currentInputElement
    /\ elemCursor[currentInputElement] \in lastWordInfo.start..lastWordInfo.end

C32_StaleResponseDiscarded ==
    [][\A w \in BagToSet(inflight), r \in Responses :
         Deliver(w, r) =>
            /\ (dataSuggestions' # dataSuggestions \/ hostDisplay' # hostDisplay)
                    => TrackedAtDelivery(w)
            /\ (lastWordInfo = NoWord \/ lastWordInfo.word # w)
                    => UNCHANGED <<dataSuggestions, hostDisplay>>]_vars

\* C32 witness: a response carrying words was discarded while the focused
\* element tracked another word under its cursor, and the bar shows nothing
C32_Witness ==
    /\ delivered.kind = "matches"
    /\ delivered.matches # <<>>
    /\ ~delivered.valid
    /\ lastWordInfo # NoWord
    /\ activeElement = currentInputElement
    /\ elemCursor[currentInputElement] \in lastWordInfo.start..lastWordInfo.end
    /\ dataSuggestions = <<>>

(***************************************************************************)
(* C33: a response with an empty match list, or reporting a failure,       *)
(* leaves the visibility of the host as it was: it never shows again a     *)
(* host that a dismiss has hidden.                                         *)
(***************************************************************************)
C33_EmptyResponseKeepsVisibility ==
    [][(\E w \in BagToSet(inflight), r \in EmptyOrFailed : Deliver(w, r))
            => hostDisplay' = hostDisplay]_vars

(***************************************************************************)
(* C35: once the content script has cleared the suggestions (input that    *)
(* is no word after a tracked word, dismiss, word selection, null cursor   *)
(* position) the tracked word is null, and until a new request is sent no  *)
(* response changes data-suggestions or the visibility of the host.        *)
(***************************************************************************)
C35_ClearingDiscardsPending ==
    /\ [](cleared => lastWordInfo = NoWord)
    /\ [][(cleared /\ \E w \in BagToSet(inflight), r \in Responses : Deliver(w, r))
            => UNCHANGED <<dataSuggestions, hostDisplay>>]_vars

\* C35 witness: after a dismiss, with no new request sent, a response
\* carrying words was delivered and the host is still hidden and empty
C35_Witness ==
    /\ cleared
    /\ hostDisplay = "none"
    /\ dataSuggestions = <<>>
    /\ delivered.kind = "matches"
    /\ delivered.matches # <<>>
    /\ ~delivered.valid

(***************************************************************************)
(* C37: at most one debounce timeout is pending at any time: every input   *)
(* event cancels the pending one and arms a new one, so the handler runs   *)
(* only for an input event that no other input event followed before the   *)
(* timeout expired; and a suggestion request is sent only when the         *)
(* detected word or its position differs from the tracked one.             *)
(***************************************************************************)
C37_OneTimerAndRequestsOnChange ==
    /\ [](Len(timers) <= 1)
    /\ [](debounceTimer # "none" <=> timers # <<>>)
    /\ [][\A e \in Elements : \A text \in TextsOf(e) :
            InputEvent(e, text) => timers' = <<e>> /\ debounceTimer' = e]_vars
    /\ [][DebouncedHandleInput =>
            /\ timers = <<debounceTimer>>
            /\ timers' = <<>>
            /\ BagCardinality(inflight') > BagCardinality(inflight) =>
                    /\ lastWordInfo' # lastWordInfo
                    /\ lastWordInfo'.word = CurrentWord(elemValue[debounceTimer],
                                                         elemCursor[debounceTimer])
                    /\ inflight' = inflight (+) SetToBag({lastWordInfo'.word})]_vars

\* C37 witness: an input event replaced a pending timeout by its own, for
\* another element, while a request is in flight
C37_Witness ==
    /\ timers = <<"email">>
    /\ debounceTimer = "email"
    /\ elemValue["textarea"] # <<>>
    /\ lastWordInfo # NoWord
    /\ BagCardinality(inflight) = 1

====
